---- MODULE Spec2Model ----
(***************************************************************************)
(* Session-tree aggregation and live-refresh engine of the Tachikoma       *)
(* dashboard (.opencode/tools/dashboard/tachikoma_dashboard).              *)
(*                                                                         *)
(*   SpecTree    models.build_session_tree, run pass by pass on every      *)
(*               bounded input list                                        *)
(*   SpecRefresh DashboardApp: the _load_data thread workers, the session  *)
(*               cache they read through, the message queue and the        *)
(*               on_sessions_loaded / _select_session handlers             *)
(*   SpecCache   TTLCache.get / set / invalidate issued by two threads     *)
(*   SpecCacheSeq  TTLCache used by one caller, every call run to completion *)
(*   SpecStatus  models._get_status_cached on every bounded argument pair  *)
(*   SpecUsage   db.get_all_model_usage and db.get_session_tokens, row by  *)
(*               row over every bounded message table                      *)
(*   SpecQuery   QueryBuilder.select / count, statement by statement       *)
(*   SpecFaults  SpecRefresh over a store that can be absent or failing    *)
(*               and over data that cannot be serialized                   *)
(*   SpecNoCache SpecRefresh with the session cache built with ttl = 0     *)
(***************************************************************************)
EXTENDS Integers, Sequences, FiniteSets, TLC

\* ------------------------------------------------------------------ bounds
MaxSessions == 3

\* ------------------------------------------------------------- value sets
\* Optional[str] parent_id: None, the empty string, or an id
None == "None"
Ids == {"s1", "s2", "s3"}
Missing == "gone"
ParentIds == Ids \cup {None, "", Missing}

RECURSIVE SeqSum(_)
SeqSum(s) == IF s = <<>> THEN 0 ELSE Head(s) + SeqSum(Tail(s))

Range(s) == {s[i] : i \in DOMAIN s}

\* the ids of a list of sessions, in list order
IdsOf(s) == [k \in DOMAIN s |-> s[k].id]

VARIABLES
    \* build_session_tree: argument, program counter, loop index, locals
    tb_sessions, tb_pc, tb_i, node_map, children, roots

VARIABLES
    \* the session table of the store, the number of writes made to it by
    \* other processes, and the wall clock (seconds)
    store, store_ops, now,
    \* db._session_cache._cache
    session_cache,
    \* DashboardApp: constructor argument, mounted flag, _sessions_hash,
    \* the reactive fields sessions, session_trees, selected_session
    interval, mounted, sessions_hash, sessions, session_trees, selected_session,
    \* the _load_data thread workers, the app's message queue
    workers, queue,
    \* history: one entry per run of _load_data, the messages handled so far
    tickLog, delivered,
    \* the store file (present, absent, or present with a failing query),
    \* db._session_cache._ttl, and whether the application is still running
    store_file, session_ttl, running,
    \* DashboardApp.cwd_filter and search_query, and stats_cache with
    \* skills_cache and todos_cache (the three are always written together)
    cwd_filter, search_query, stats_cache,
    \* history: a handler has reset _sessions_hash and no run of _load_data
    \* has ended since
    reload_due

VARIABLES
    \* one TTLCache shared by threads: self._cache, time.time(), each
    \* thread's call in progress, the number of calls issued
    cache_dict, cache_now, threads, calls

VARIABLES
    \* _get_status_cached: the arguments and the Optional result
    st_updated, st_now, st_status

VARIABLES
    \* one TTLCache used by one caller: self._cache, time.time(), the
    \* constructor arguments ttl and max_size, the number of calls made
    sq_cache, sq_now, sq_ttl, sq_max_size, sq_calls,
    \* history: the last call with its result, and per key the most recent
    \* set that no invalidate, clear or eviction has removed since
    sq_last, sq_shadow

VARIABLES
    \* the usage aggregators: the function called, the message table
    \* (newest first), the session_id argument, program counter, loop
    \* index, the locals models and (total_input, total_output,
    \* request_count), the Optional return value
    ag_fn, ag_rows, ag_session, ag_pc, ag_i, ag_models, ag_totals, ag_result

VARIABLES
    \* QueryBuilder.select / count: the call and its arguments, program
    \* counter, loop index, the locals col_list and query, the number of
    \* connections opened, the statements executed, the Optional exception
    qb_call, qb_pc, qb_i, qb_col_list, qb_query, qb_connections, qb_executed,
    qb_error

VARIABLES
    \* render_tree_iterative: the session list the forest was built from,
    \* the forest (roots, children per node), _is_expanded per node, the
    \* locals stack and lines, program counter
    rn_sessions, rn_roots, rn_children, rn_expanded, rn_stack, rn_lines, rn_pc

\* the value of _sessions_hash before any hash is stored
EmptyHash == [ok |-> FALSE, digest |-> <<>>]

\* the refresh controller before it is constructed (held fixed outside
\* SpecRefresh)
RefreshParked ==
    /\ store = {}
    /\ store_ops = 0
    /\ now = 0
    /\ session_cache = <<>>
    /\ interval = 0
    /\ mounted = FALSE
    /\ sessions_hash = EmptyHash
    /\ sessions = <<>>
    /\ session_trees = <<>>
    /\ selected_session = <<>>
    /\ workers = <<>>
    /\ queue = <<>>
    /\ tickLog = <<>>
    /\ delivered = <<>>
    /\ store_file = "present"
    /\ session_ttl = 0
    /\ running = FALSE
    /\ cwd_filter = None
    /\ search_query = ""
    /\ stats_cache = <<>>
    /\ reload_due = FALSE

\* the shared cache before any thread uses it (held fixed outside SpecCache)
CacheParked ==
    /\ cache_dict = <<>>
    /\ cache_now = 0
    /\ threads = <<>>
    /\ calls = 0

\* build_session_tree before it is called (held fixed outside SpecTree)
TreeParked ==
    /\ tb_sessions = <<>>
    /\ tb_pc = "done"
    /\ tb_i = 1
    /\ node_map = <<>>
    /\ children = <<>>
    /\ roots = <<>>

\* _get_status_cached before it is called (held fixed outside SpecStatus)
StatusParked ==
    /\ st_updated = 0
    /\ st_now = 0
    /\ st_status = <<>>

\* the single-caller cache before it is constructed (held fixed outside
\* SpecCacheSeq)
SeqParked ==
    /\ sq_cache = <<>>
    /\ sq_now = 0
    /\ sq_ttl = 0
    /\ sq_max_size = 0
    /\ sq_calls = 0
    /\ sq_last = <<>>
    /\ sq_shadow = <<>>

\* the usage aggregators before they are called (held fixed outside
\* SpecUsage)
UsageParked ==
    /\ ag_fn = "none"
    /\ ag_rows = <<>>
    /\ ag_session = "s1"
    /\ ag_pc = "done"
    /\ ag_i = 1
    /\ ag_models = <<>>
    /\ ag_totals = <<>>
    /\ ag_result = <<>>

\* the query builder before it is called (held fixed outside SpecQuery)
QueryParked ==
    /\ qb_call = <<>>
    /\ qb_pc = "done"
    /\ qb_i = 1
    /\ qb_col_list = <<>>
    /\ qb_query = <<>>
    /\ qb_connections = 0
    /\ qb_executed = <<>>
    /\ qb_error = <<>>

\* the renderer before a forest is built (held fixed outside SpecRender)
RenderParked ==
    /\ rn_sessions = <<>>
    /\ rn_roots = <<>>
    /\ rn_children = <<>>
    /\ rn_expanded = <<>>
    /\ rn_stack = <<>>
    /\ rn_lines = <<>>
    /\ rn_pc = "done"

tcVars == <<cache_dict, cache_now, threads, calls>>
tbVars == <<tb_sessions, tb_pc, tb_i, node_map, children, roots>>
rfVars == <<store, store_ops, now, session_cache, interval, mounted, sessions_hash,
            sessions, session_trees, selected_session, workers, queue,
            tickLog, delivered, store_file, session_ttl, running,
            cwd_filter, search_query, stats_cache, reload_due>>
stVars == <<st_updated, st_now, st_status>>
sqVars == <<sq_cache, sq_now, sq_ttl, sq_max_size, sq_calls, sq_last, sq_shadow>>
agVars == <<ag_fn, ag_rows, ag_session, ag_pc, ag_i, ag_models, ag_totals, ag_result>>
qbVars == <<qb_call, qb_pc, qb_i, qb_col_list, qb_query, qb_connections,
            qb_executed, qb_error>>
rnVars == <<rn_sessions, rn_roots, rn_children, rn_expanded, rn_stack, rn_lines, rn_pc>>
vars == <<tbVars, rfVars, tcVars, stVars, sqVars, agVars, qbVars, rnVars>>

\* what the actions of one component leave alone
outsideTree == <<rfVars, tcVars, stVars, sqVars, agVars, qbVars, rnVars>>
outsideRefresh == <<tbVars, tcVars, stVars, sqVars, agVars, qbVars, rnVars>>
outsideCache == <<tbVars, rfVars, stVars, sqVars, agVars, qbVars, rnVars>>
outsideStatus == <<tbVars, rfVars, tcVars, sqVars, agVars, qbVars, rnVars>>
outsideCacheSeq == <<tbVars, rfVars, tcVars, stVars, agVars, qbVars, rnVars>>
outsideUsage == <<tbVars, rfVars, tcVars, stVars, sqVars, qbVars, rnVars>>
outsideQuery == <<tbVars, rfVars, tcVars, stVars, sqVars, agVars, rnVars>>
outsideRender == <<tbVars, rfVars, tcVars, stVars, sqVars, agVars, qbVars>>

\* ====================================================================
\* models.py: Session, SessionTree, build_session_tree
\* ====================================================================

\* Session(id, parent_id, ...): the fields the dashboard core reads
Session(id, parent, title, dir, upd) ==
    [id |-> id, parent_id |-> parent, title |-> title,
     directory |-> dir, time_updated |-> upd]

\* truthiness of session.parent_id (None and "" are falsy)
ParentSet(p) == p # None /\ p # ""

\* Pass 1: node_map = {s.id: SessionTree(s) for s in sessions}
\* (a SessionTree starts with no children)
Pass1Map(ss) ==
    [i \in {ss[k].id : k \in DOMAIN ss} |->
        (CHOOSE s \in Range(ss) : s.id = i)]

Pass1Children(ss) ==
    [i \in {ss[k].id : k \in DOMAIN ss} |-> <<>>]

\* SessionTree.add_child: self.children.append(child)
add_child(ch, parent, child) == [ch EXCEPT ![parent] = Append(@, child)]

\* a pass-2 body that forgets the else branch when the parent is absent
AttachDropOrphan(nm, st, session) ==
    IF ParentSet(session.parent_id)
    THEN IF session.parent_id \in DOMAIN nm
         THEN [roots |-> st.roots,
               children |-> add_child(st.children, session.parent_id, session.id)]
         ELSE st
    ELSE [roots |-> Append(st.roots, session.id), children |-> st.children]

\* the body of the pass-2 loop for one session
Attach(nm, st, session) ==
    IF ParentSet(session.parent_id) /\ session.parent_id \in DOMAIN nm
    THEN [roots |-> st.roots,
          children |-> add_child(st.children, session.parent_id, session.id)]
    ELSE [roots |-> Append(st.roots, session.id), children |-> st.children]

RECURSIVE Pass2(_, _, _)
Pass2(nm, st, rest) ==
    IF rest = <<>> THEN st
    ELSE Pass2(nm, Attach(nm, st, Head(rest)), Tail(rest))

\* build_session_tree as a function: the forest as (roots, children)
BuildTree(ss) ==
    IF ss = <<>> THEN [roots |-> <<>>, children |-> <<>>]
    ELSE Pass2(Pass1Map(ss),
               [roots |-> <<>>, children |-> Pass1Children(ss)],
               ss)

\* ====================================================================
\* db.py: TTLCache (the dict keeps insertion order), get_sessions
\* ====================================================================
CACHE_TTL == 5
DEFAULT_MAX_SIZE == 100

\* dict operations on an insertion-ordered list of entries
DictHas(d, k) == \E i \in DOMAIN d : d[i].key = k
DictGet(d, k) == d[CHOOSE i \in DOMAIN d : d[i].key = k]
DictDel(d, k) == SelectSeq(d, LAMBDA e : e.key # k)
DictPut(d, k, e) ==
    IF DictHas(d, k)
    THEN [i \in DOMAIN d |-> IF d[i].key = k THEN e ELSE d[i]]
    ELSE Append(d, e)

CacheEntry(k, v, t) == [key |-> k, value |-> v, timestamp |-> t]

\* a get that already expires an entry whose age equals the ttl
TTLGetExpireAtTtl(c, key, t, ttl) ==
    IF ~DictHas(c, key) THEN [cache |-> c, value |-> <<>>]
    ELSE IF t - DictGet(c, key).timestamp >= ttl
         THEN [cache |-> DictDel(c, key), value |-> <<>>]
         ELSE [cache |-> c, value |-> <<DictGet(c, key).value>>]

\* TTLCache.get run to completion: the cache afterwards and the Optional
\* result (<<>> for None, <<v>> for a value)
TTLGet(c, key, t, ttl) ==
    IF ~DictHas(c, key) THEN [cache |-> c, value |-> <<>>]
    ELSE IF t - DictGet(c, key).timestamp > ttl
         THEN [cache |-> DictDel(c, key), value |-> <<>>]
         ELSE [cache |-> c, value |-> <<DictGet(c, key).value>>]

\* an eviction choice that takes the entry with the greatest timestamp
NewestKey(c) ==
    LET i == CHOOSE i \in DOMAIN c :
                 /\ \A j \in DOMAIN c : c[i].timestamp >= c[j].timestamp
                 /\ \A j \in 1..(i - 1) : c[j].timestamp < c[i].timestamp
    IN c[i].key

\* min(self._cache.keys(), key=timestamp): the first key, in insertion
\* order, among those with the least timestamp
OldestKey(c) ==
    LET i == CHOOSE i \in DOMAIN c :
                 /\ \A j \in DOMAIN c : c[i].timestamp <= c[j].timestamp
                 /\ \A j \in 1..(i - 1) : c[j].timestamp > c[i].timestamp
    IN c[i].key

\* a set that evicts only once the cache holds more than max_size entries
TTLSetEvictAbove(c, key, value, t, max_size) ==
    LET c1 == IF Len(c) > max_size THEN DictDel(c, OldestKey(c)) ELSE c
    IN DictPut(c1, key, CacheEntry(key, value, t))

\* TTLCache.set run to completion
TTLSet(c, key, value, t, max_size) ==
    LET c1 == IF Len(c) >= max_size THEN DictDel(c, OldestKey(c)) ELSE c
    IN DictPut(c1, key, CacheEntry(key, value, t))

\* TTLCache.invalidate: self._cache.pop(key, None)
TTLInvalidate(c, key) == DictDel(c, key)

\* TTLCache.clear: self._cache.clear()
TTLClear(c) == <<>>

\* rows of the session table, ORDER BY time_updated DESC
RECURSIVE SortDesc(_)
SortDesc(rows) ==
    IF rows = {} THEN <<>>
    ELSE LET r == CHOOSE r \in rows :
                     \A q \in rows : q.time_updated <= r.time_updated
         IN <<r>> \o SortDesc(rows \ {r})

\* f"sessions:{cwd or 'all'}"
CacheKey(cwd) == IF ParentSet(cwd) THEN <<"sessions", cwd>> ELSE <<"sessions", "all">>

\* db.get_sessions(cwd): the session cache afterwards, the list returned,
\* whether the cache answered, and whether the call raised (b.select on a
\* store whose query fails raises sqlite3.Error, which nothing catches)
get_sessions(c, file, rows, cwd, t, ttl) ==
    LET cached == TTLGet(c, CacheKey(cwd), t, ttl)
        where == IF ParentSet(cwd) THEN {r \in rows : r.directory = cwd} ELSE rows
        fresh == SortDesc(where)
    IN IF cached.value # <<>>
       THEN [cache |-> cached.cache, sessions |-> cached.value[1],
             hit |-> TRUE, raised |-> FALSE]
       ELSE IF file = "absent"
       THEN [cache |-> cached.cache, sessions |-> <<>>,
             hit |-> FALSE, raised |-> FALSE]
       ELSE IF file = "failing"
       THEN [cache |-> cached.cache, sessions |-> <<>>,
             hit |-> FALSE, raised |-> TRUE]
       ELSE [cache |-> TTLSet(cached.cache, CacheKey(cwd), fresh, t, DEFAULT_MAX_SIZE),
             sessions |-> fresh, hit |-> FALSE, raised |-> FALSE]

\* ====================================================================
\* app.py: _data_hash, SessionsLoaded, DashboardApp
\* ====================================================================

\* a projection that also carries parent_id
ProjectionWithParent(ss) ==
    [k \in DOMAIN ss |-> [id |-> ss[k].id, title |-> ss[k].title,
                          directory |-> ss[k].directory,
                          time_updated |-> ss[k].time_updated,
                          parent_id |-> ss[k].parent_id]]

\* sessions_data: the dicts {id, title, directory, time_updated}
Projection(ss) ==
    [k \in DOMAIN ss |-> [id |-> ss[k].id, title |-> ss[k].title,
                          directory |-> ss[k].directory,
                          time_updated |-> ss[k].time_updated]]

\* a title on which json.dumps raises TypeError or ValueError
Unserializable == "<unserializable>"

\* _data_hash: the digest of the serialized data (digests of different
\* serializations are taken to differ), or "" when serializing raises;
\* "" is also the value of _sessions_hash before any hash is stored
DataHash(data) ==
    IF \E k \in DOMAIN data : data[k].title = Unserializable
    THEN EmptyHash
    ELSE [ok |-> TRUE, digest |-> data]

SessionsHashOf(ss) == DataHash(Projection(ss))

\* SessionsLoaded(sessions, trees); tick is the number of the run that
\* posted it
SessionsLoaded(ss, trees, n) == [sessions |-> ss, trees |-> trees, tick |-> n]

\* a run of _load_data that has not started, and one that has returned
\* (asked is history: for a run started by action_refresh, the list the
\* store held under the filters of that moment)
NewWorker ==
    [pc |-> "new", forced |-> FALSE, n |-> 0, sessions |-> <<>>, asked |-> <<>>]
DoneWorker ==
    [pc |-> "done", forced |-> FALSE, n |-> 0, sessions |-> <<>>, asked |-> <<>>]

\* query_lower in s.title.lower() or query_lower in s.directory.lower();
\* titles, directories and queries are drawn so that none is a proper
\* substring of another
Matches(session, query) == query = session.title \/ query = session.directory

\* the search filter of _load_data ("" is falsy: no filter)
SearchFilter(ss, query) ==
    IF query = "" THEN ss ELSE SelectSeq(ss, LAMBDA x : Matches(x, query))

\* the list a run of _load_data holds after the search filter when
\* get_sessions reads the store
StoreList(rows, cwd, query) ==
    SearchFilter(SortDesc(IF ParentSet(cwd) THEN {r \in rows : r.directory = cwd}
                                            ELSE rows),
                 query)

\* what db.get_session_stats, get_session_skills and get_todos return for
\* a session, summed up as the time_updated of its row (a session's
\* time_updated advances with every row written for it); 0 stands for the
\* empty results of a session or store file that is not there
SessionDetails(file, rows, id) ==
    IF file = "present" /\ \E r \in rows : r.id = id
    THEN (CHOOSE r \in rows : r.id = id).time_updated
    ELSE 0

\* ====================================================================
\* DashboardApp: workers, handlers, and the store they poll
\* ====================================================================
MaxTicks == 2
MaxStoreOps == 1

StoreIds == {"s1", "s2"}
Intervals == {2, 6}

\* the session table when the dashboard starts: a main run and a more
\* recently updated sub-agent run
InitialStore ==
    {Session("s1", None, "t", "d1", 1), Session("s2", "s1", "t", "d1", 2)}

\* DashboardApp(interval, cwd) constructed over a store, not yet mounted
RefreshStart(st, file, ttl) ==
    /\ store = st
    /\ store_ops = 0
    /\ now = 0
    /\ session_cache = <<>>
    /\ interval \in Intervals
    /\ mounted = FALSE
    /\ sessions_hash = EmptyHash
    /\ sessions = <<>>
    /\ session_trees = BuildTree(<<>>)
    /\ selected_session = <<>>
    /\ workers = [w \in 1..MaxTicks |-> NewWorker]
    /\ queue = <<>>
    /\ tickLog = <<>>
    /\ delivered = <<>>
    /\ store_file = file
    /\ session_ttl = ttl
    /\ running = TRUE
    /\ cwd_filter = None
    /\ search_query = ""
    /\ stats_cache = <<>>
    /\ reload_due = FALSE
    /\ TreeParked
    /\ CacheParked
    /\ StatusParked
    /\ SeqParked
    /\ UsageParked
    /\ QueryParked
    /\ RenderParked

RefreshInit == RefreshStart(InitialStore, "present", CACHE_TTL)

\* the runs of _load_data in flight, the number of runs started so far
Running == {w \in DOMAIN workers : workers[w].pc \notin {"new", "done"}}
Started == Cardinality({w \in DOMAIN workers : workers[w].pc # "new"})

CanStart == Started < MaxTicks

\* self._load_data(): @work(exclusive=True, thread=True) flags the earlier
\* workers of the group as cancelled, which a thread worker that never
\* tests is_cancelled does not notice, and starts a new thread
StartWorker(ws, forced, asked) ==
    LET w == 1 + Cardinality({v \in DOMAIN ws : ws[v].pc # "new"})
    IN [ws EXCEPT ![w] = [pc |-> "read", forced |-> forced, n |-> 0,
                          sessions |-> <<>>, asked |-> asked]]

\* ---- the store (other processes write it)
MaxUpdated == IF store = {} THEN 0
              ELSE (CHOOSE r \in store : \A q \in store : q.time_updated <= r.time_updated).time_updated

\* a session gets a new message: its time_updated advances
StoreTouch ==
    /\ store_ops < MaxStoreOps
    /\ \E r \in store :
          store' = (store \ {r}) \cup {[r EXCEPT !.time_updated = MaxUpdated + 1]}
    /\ store_ops' = store_ops + 1
    /\ UNCHANGED <<now, session_cache, interval, mounted, sessions_hash, sessions,
                   session_trees, selected_session, workers, queue, tickLog, delivered>>
    /\ UNCHANGED <<store_file, session_ttl, running>>
    /\ UNCHANGED <<cwd_filter, search_query, stats_cache, reload_due>>
    /\ UNCHANGED outsideRefresh

\* a session row is removed from the store
StoreDelete ==
    /\ store_ops < MaxStoreOps
    /\ \E r \in store : store' = store \ {r}
    /\ store_ops' = store_ops + 1
    /\ UNCHANGED <<now, session_cache, interval, mounted, sessions_hash, sessions,
                   session_trees, selected_session, workers, queue, tickLog, delivered>>
    /\ UNCHANGED <<store_file, session_ttl, running>>
    /\ UNCHANGED <<cwd_filter, search_query, stats_cache, reload_due>>
    /\ UNCHANGED outsideRefresh

\* ---- the UI thread
on_mount ==
    /\ running
    /\ ~mounted
    /\ CanStart
    /\ mounted' = TRUE
    /\ workers' = StartWorker(workers, FALSE, <<>>)
    /\ UNCHANGED <<store, store_ops, now, session_cache, interval, sessions_hash, sessions,
                   session_trees, selected_session, queue, tickLog, delivered>>
    /\ UNCHANGED <<store_file, session_ttl, running>>
    /\ UNCHANGED <<cwd_filter, search_query, stats_cache, reload_due>>
    /\ UNCHANGED outsideRefresh

\* the set_interval timer fires, interval seconds after the last firing
IntervalFire ==
    /\ running
    /\ mounted
    /\ CanStart
    /\ now' = now + interval
    /\ workers' = StartWorker(workers, FALSE, <<>>)
    /\ UNCHANGED <<store, store_ops, session_cache, interval, mounted, sessions_hash, sessions,
                   session_trees, selected_session, queue, tickLog, delivered>>
    /\ UNCHANGED <<store_file, session_ttl, running>>
    /\ UNCHANGED <<cwd_filter, search_query, stats_cache, reload_due>>
    /\ UNCHANGED outsideRefresh

action_refresh ==
    /\ running
    /\ mounted
    /\ CanStart
    /\ sessions_hash' = EmptyHash
    /\ workers' = StartWorker(workers, TRUE,
                            <<StoreList(store, cwd_filter, search_query)>>)
    /\ UNCHANGED <<store, store_ops, now, session_cache, interval, mounted, sessions,
                   session_trees, selected_session, queue, tickLog, delivered>>
    /\ UNCHANGED <<store_file, session_ttl, running>>
    /\ UNCHANGED <<cwd_filter, search_query, stats_cache>>
    /\ reload_due' = TRUE
    /\ UNCHANGED outsideRefresh

\* _select_session(session): the new value of selected_session
SelectSession(selected, session) ==
    IF <<session>> = selected THEN selected ELSE <<session>>

\* the auto-select at the end of on_sessions_loaded
AutoSelect(selected, event) ==
    IF selected = <<>> /\ event.sessions # <<>>
    THEN SelectSession(selected, event.sessions[1])
    ELSE selected

\* _select_session from its first query on: the queries raise when the
\* store's queries fail, which ends the handler and with it the app;
\* otherwise the three caches are replaced by the session's details
SelectRaises(selected, target) == target # selected /\ store_file = "failing"

LoadDetails(selected, target) ==
    IF target = selected \/ store_file = "failing" THEN stats_cache
    ELSE <<[id |-> target[1].id,
            details |-> SessionDetails(store_file, store, target[1].id)]>>

on_sessions_loaded ==
    /\ running
    /\ queue # <<>>
    /\ LET event == Head(queue)
           target == AutoSelect(selected_session, event)
       IN /\ sessions' = event.sessions
          /\ session_trees' = event.trees
          /\ selected_session' = target
          /\ stats_cache' = LoadDetails(selected_session, target)
          /\ running' = ~SelectRaises(selected_session, target)
          /\ delivered' = Append(delivered, event)
    /\ queue' = Tail(queue)
    /\ UNCHANGED <<store, store_ops, now, session_cache, interval, mounted, sessions_hash,
                   workers, tickLog>>
    /\ UNCHANGED <<store_file, session_ttl, cwd_filter, search_query, reload_due>>
    /\ UNCHANGED outsideRefresh

\* the user moves the cursor to, or selects, a node of the tree widget
on_session_tree_widget_selected ==
    /\ running
    /\ \E k \in DOMAIN sessions :
          /\ <<sessions[k]>> # selected_session
          /\ selected_session' = SelectSession(selected_session, sessions[k])
          /\ stats_cache' = LoadDetails(selected_session, <<sessions[k]>>)
          /\ running' = ~SelectRaises(selected_session, <<sessions[k]>>)
    /\ UNCHANGED <<store, store_ops, now, session_cache, interval, mounted, sessions_hash,
                   sessions, session_trees, workers, queue, tickLog, delivered>>
    /\ UNCHANGED <<store_file, session_ttl, cwd_filter, search_query, reload_due>>
    /\ UNCHANGED outsideRefresh

\* ---- a _load_data thread
\* sessions = db.get_sessions(self.cwd_filter); the search filter;
\* sessions_data; new_hash
W_Read ==
    /\ \E w \in DOMAIN workers :
          /\ workers[w].pc = "read"
          /\ LET r == get_sessions(session_cache, store_file, store, cwd_filter,
                                   now, session_ttl)
                 n == Len(tickLog) + 1
             IN /\ session_cache' = r.cache
                /\ workers' =
                     IF r.raised
                     THEN [workers EXCEPT ![w].pc = "raised", ![w].n = n]
                     ELSE [workers EXCEPT ![w].pc = "compare", ![w].n = n,
                                          ![w].sessions =
                                              SearchFilter(r.sessions, search_query)]
                /\ tickLog' = Append(tickLog,
                       [list |-> SearchFilter(r.sessions, search_query), forced |-> workers[w].forced,
                        seen |-> EmptyHash, done |-> r.raised,
                        failed |-> store_file # "present" /\ ~r.hit,
                        raised |-> r.raised])
    /\ UNCHANGED <<store, store_ops, now, interval, mounted, sessions_hash, sessions,
                   session_trees, selected_session, queue, delivered>>
    /\ UNCHANGED <<store_file, session_ttl, running>>
    /\ UNCHANGED <<cwd_filter, search_query, stats_cache, reload_due>>
    /\ UNCHANGED outsideRefresh

\* a comparison that only notices a different number of sessions
HashChangedByCount(new_hash, old_hash) ==
    ~old_hash.ok \/ Len(new_hash.digest) # Len(old_hash.digest)

\* new_hash != self._sessions_hash
HashChanged(new_hash, old_hash) == new_hash # old_hash

\* if new_hash != self._sessions_hash:
W_Compare ==
    /\ \E w \in DOMAIN workers :
          /\ workers[w].pc = "compare"
          /\ LET changed == HashChanged(SessionsHashOf(workers[w].sessions), sessions_hash)
             IN /\ workers' = IF changed
                              THEN [workers EXCEPT ![w].pc = "store"]
                              ELSE [workers EXCEPT ![w] = DoneWorker]
                /\ tickLog' = [tickLog EXCEPT ![workers[w].n].seen = sessions_hash,
                                              ![workers[w].n].done = ~changed]
                /\ reload_due' = (reload_due /\ changed)
    /\ UNCHANGED <<store, store_ops, now, session_cache, interval, mounted, sessions_hash,
                   sessions, session_trees, selected_session, queue, delivered>>
    /\ UNCHANGED <<store_file, session_ttl, running>>
    /\ UNCHANGED <<cwd_filter, search_query, stats_cache>>
    /\ UNCHANGED outsideRefresh

\* self._sessions_hash = new_hash
W_StoreHash ==
    /\ \E w \in DOMAIN workers :
          /\ workers[w].pc = "store"
          /\ sessions_hash' = SessionsHashOf(workers[w].sessions)
          /\ workers' = [workers EXCEPT ![w].pc = "emit"]
    /\ UNCHANGED <<store, store_ops, now, session_cache, interval, mounted, sessions,
                   session_trees, selected_session, queue, tickLog, delivered>>
    /\ UNCHANGED <<store_file, session_ttl, running>>
    /\ UNCHANGED <<cwd_filter, search_query, stats_cache, reload_due>>
    /\ UNCHANGED outsideRefresh

\* agent_names = {s.id: db.get_session_agent(s.id) for s in sessions}: one
\* query of the store per session, which raises when the store's queries
\* fail (as the queries of db.py do: nothing catches sqlite3.Error)
LookupRaises(file, ss) == file = "failing" /\ ss # <<>>

\* trees = build_session_tree(sessions, agent_names) (the agent names only
\* label the nodes); self.post_message(SessionsLoaded(sessions, trees))
W_Emit ==
    /\ \E w \in DOMAIN workers :
          /\ workers[w].pc = "emit"
          /\ ~LookupRaises(store_file, workers[w].sessions)
          /\ queue' = Append(queue,
                 SessionsLoaded(workers[w].sessions, BuildTree(workers[w].sessions),
                                workers[w].n))
          /\ tickLog' = [tickLog EXCEPT ![workers[w].n].done = TRUE]
          /\ workers' = [workers EXCEPT ![w] = DoneWorker]
    /\ UNCHANGED <<store, store_ops, now, session_cache, interval, mounted, sessions_hash,
                   sessions, session_trees, selected_session, delivered>>
    /\ UNCHANGED <<store_file, session_ttl, running>>
    /\ UNCHANGED <<cwd_filter, search_query, stats_cache>>
    /\ reload_due' = FALSE
    /\ UNCHANGED outsideRefresh

RefreshNext ==
    \/ StoreTouch \/ StoreDelete
    \/ on_mount \/ IntervalFire \/ action_refresh
    \/ on_sessions_loaded \/ on_session_tree_widget_selected
    \/ W_Read \/ W_Compare \/ W_StoreHash \/ W_Emit

SpecRefresh == RefreshInit /\ [][RefreshNext]_vars

\* ---- the same controller over a store that can be absent or fail, and
\* over session data that cannot be serialized
StoreFiles == {"present", "absent", "failing"}

UnserializableStore ==
    {Session("s1", None, Unserializable, "d1", 1), Session("s2", "s1", "t", "d1", 2)}

FaultInit ==
    \E st \in {InitialStore, UnserializableStore}, f \in StoreFiles :
        RefreshStart(st, f, CACHE_TTL)

\* the store file appears, disappears, or its query starts or stops failing
StoreFileChange ==
    /\ store_ops < MaxStoreOps
    /\ \E f \in StoreFiles \ {store_file} : store_file' = f
    /\ store_ops' = store_ops + 1
    /\ UNCHANGED <<store, now, session_cache, interval, mounted, sessions_hash, sessions,
                   session_trees, selected_session, workers, queue, tickLog, delivered>>
    /\ UNCHANGED <<session_ttl, running>>
    /\ UNCHANGED <<cwd_filter, search_query, stats_cache, reload_due>>
    /\ UNCHANGED outsideRefresh

\* a _load_data worker ended with an exception: @work leaves exit_on_error
\* at its default True, so the worker hands the error to the app, which
\* exits
WorkerFailed ==
    /\ running
    /\ \E w \in DOMAIN workers :
          /\ workers[w].pc = "raised"
          /\ workers' = [workers EXCEPT ![w] = DoneWorker]
    /\ running' = FALSE
    /\ UNCHANGED <<store, store_ops, now, session_cache, interval, mounted, sessions_hash,
                   sessions, session_trees, selected_session, queue, tickLog, delivered>>
    /\ UNCHANGED <<store_file, session_ttl>>
    /\ UNCHANGED <<cwd_filter, search_query, stats_cache, reload_due>>
    /\ UNCHANGED outsideRefresh

\* the agent-name lookup raises: the run ends after it stored the new
\* hash and before it posted anything
W_EmitRaise ==
    /\ \E w \in DOMAIN workers :
          /\ workers[w].pc = "emit"
          /\ LookupRaises(store_file, workers[w].sessions)
          /\ workers' = [workers EXCEPT ![w].pc = "raised"]
          /\ tickLog' = [tickLog EXCEPT ![workers[w].n].done = TRUE,
                                        ![workers[w].n].raised = TRUE]
    /\ UNCHANGED <<store, store_ops, now, session_cache, interval, mounted, sessions_hash,
                   sessions, session_trees, selected_session, queue, delivered>>
    /\ UNCHANGED <<store_file, session_ttl, running>>
    /\ UNCHANGED <<cwd_filter, search_query, stats_cache, reload_due>>
    /\ UNCHANGED outsideRefresh

FaultNext == RefreshNext \/ StoreFileChange \/ WorkerFailed \/ W_EmitRaise

SpecFaults == FaultInit /\ [][FaultNext]_vars

\* ---- the same controller over a store whose writers only move a session
\* under another parent (or make it a main run): of the columns
\* get_sessions selects, only parent_id changes
StoreReparent ==
    /\ store_ops < MaxStoreOps
    /\ \E r \in store :
          \E p \in ({None} \cup {q.id : q \in store}) \ {r.parent_id, r.id} :
              store' = (store \ {r}) \cup {[r EXCEPT !.parent_id = p]}
    /\ store_ops' = store_ops + 1
    /\ UNCHANGED <<now, session_cache, interval, mounted, sessions_hash, sessions,
                   session_trees, selected_session, workers, queue, tickLog, delivered>>
    /\ UNCHANGED <<store_file, session_ttl, running>>
    /\ UNCHANGED <<cwd_filter, search_query, stats_cache, reload_due>>
    /\ UNCHANGED outsideRefresh

ColumnsNext ==
    \/ StoreReparent
    \/ on_mount \/ IntervalFire \/ action_refresh
    \/ on_sessions_loaded \/ on_session_tree_widget_selected
    \/ W_Read \/ W_Compare \/ W_StoreHash \/ W_Emit

SpecColumns == RefreshInit /\ [][ColumnsNext]_vars

\* ---- the same controller with the user changing the directory filter and
\* the search query, over a store nobody writes
\* os.getcwd()
Getcwd == "d1"

\* what the search bar's input can hold
SearchQueries == {"", "t", "d2"}

\* a main run in the working directory and a sub-agent run elsewhere
FilterStore ==
    {Session("s1", None, "t", "d1", 1), Session("s2", "s1", "t", "d2", 2)}

FilterInit == RefreshStart(FilterStore, "present", CACHE_TTL)

action_toggle_filter ==
    /\ running
    /\ mounted
    /\ CanStart
    /\ cwd_filter' = IF ParentSet(cwd_filter) THEN None ELSE Getcwd
    /\ sessions_hash' = EmptyHash
    /\ workers' = StartWorker(workers, TRUE, <<>>)
    /\ reload_due' = TRUE
    /\ UNCHANGED <<store, store_ops, now, session_cache, interval, mounted, sessions,
                   session_trees, selected_session, queue, tickLog, delivered>>
    /\ UNCHANGED <<store_file, session_ttl, running>>
    /\ UNCHANGED <<search_query, stats_cache>>
    /\ UNCHANGED outsideRefresh

\* SearchBar posts SearchChanged(event.value) on every change of its input
\* and on submit (closing the bar with a query set acts as a change to "")
on_search_bar_search_changed ==
    /\ running
    /\ mounted
    /\ CanStart
    /\ \E query \in SearchQueries : search_query' = query
    /\ sessions_hash' = EmptyHash
    /\ workers' = StartWorker(workers, TRUE, <<>>)
    /\ reload_due' = TRUE
    /\ UNCHANGED <<store, store_ops, now, session_cache, interval, mounted, sessions,
                   session_trees, selected_session, queue, tickLog, delivered>>
    /\ UNCHANGED <<store_file, session_ttl, running>>
    /\ UNCHANGED <<cwd_filter, stats_cache>>
    /\ UNCHANGED outsideRefresh

FilterNext ==
    \/ on_mount \/ IntervalFire \/ action_refresh
    \/ action_toggle_filter \/ on_search_bar_search_changed
    \/ on_sessions_loaded \/ on_session_tree_widget_selected
    \/ W_Read \/ W_Compare \/ W_StoreHash \/ W_Emit

SpecFilter == FilterInit /\ [][FilterNext]_vars

\* ---- the same controller with db._session_cache built with ttl = 0
NoCacheInit == RefreshStart(InitialStore, "present", 0)

SpecNoCache == NoCacheInit /\ [][RefreshNext]_vars

\* ====================================================================
\* TTLCache used by two threads at once (overlapping _load_data workers
\* call get_sessions on db._session_cache); a thread switch can fall
\* between any two dict operations of a method
\* ====================================================================
MaxThreads == 2
MaxCalls == 3
MaxClock == 6
SmallMaxSize == 1

CacheKeys == {"k1", "k2"}
CacheValues == {"v1", "v2"}

IdleThread ==
    [pc |-> "idle", op |-> "none", key |-> "k1", value |-> "v1",
     entry |-> <<>>, oldest_key |-> "k1", ret |-> <<>>]

CacheInit ==
    /\ cache_dict = <<>>
    /\ cache_now = 0
    /\ threads = [t \in 1..MaxThreads |-> IdleThread]
    /\ calls = 0
    /\ TreeParked
    /\ RefreshParked
    /\ StatusParked
    /\ SeqParked
    /\ UsageParked
    /\ QueryParked
    /\ RenderParked

\* time passes
CacheClock ==
    /\ \E d \in {1, CACHE_TTL + 1} :
          /\ cache_now + d <= MaxClock
          /\ cache_now' = cache_now + d
    /\ UNCHANGED <<cache_dict, threads, calls>>
    /\ UNCHANGED outsideCache

\* a thread calls get(key), set(key, value) or invalidate(key)
TC_Call ==
    /\ calls < MaxCalls
    /\ \E t \in DOMAIN threads, op \in {"get", "set", "invalidate"},
          k \in CacheKeys, v \in CacheValues :
          /\ threads[t].pc = "idle"
          /\ threads' = [threads EXCEPT ![t] =
                 [IdleThread EXCEPT !.op = op, !.key = k,
                    !.value = IF op = "set" THEN v ELSE "v1",
                    !.pc = CASE op = "get" -> "get_lookup"
                             [] op = "set" -> "set_len"
                             [] OTHER -> "pop"]]
    /\ calls' = calls + 1
    /\ UNCHANGED <<cache_dict, cache_now>>
    /\ UNCHANGED outsideCache

\* get: entry = self._cache.get(key); if entry is None: return None
TC_GetLookup ==
    /\ \E t \in DOMAIN threads :
          /\ threads[t].pc = "get_lookup"
          /\ threads' =
               IF DictHas(cache_dict, threads[t].key)
               THEN [threads EXCEPT ![t].entry = <<DictGet(cache_dict, threads[t].key)>>,
                                    ![t].pc = "get_check"]
               ELSE [threads EXCEPT ![t].pc = "idle", ![t].ret = <<>>]
    /\ UNCHANGED <<cache_dict, cache_now, calls>>
    /\ UNCHANGED outsideCache

\* get: if time.time() - entry.timestamp > self._ttl: del self._cache[key];
\* return None (del raises KeyError when the key is gone); else return
\* entry.value
TC_GetCheck ==
    /\ \E t \in DOMAIN threads :
          /\ threads[t].pc = "get_check"
          /\ IF cache_now - threads[t].entry[1].timestamp > CACHE_TTL
             THEN IF DictHas(cache_dict, threads[t].key)
                  THEN /\ cache_dict' = DictDel(cache_dict, threads[t].key)
                       /\ threads' = [threads EXCEPT ![t].pc = "idle", ![t].ret = <<>>]
                  ELSE /\ threads' = [threads EXCEPT ![t].pc = "raised"]
                       /\ UNCHANGED cache_dict
             ELSE /\ threads' = [threads EXCEPT ![t].pc = "idle",
                                     ![t].ret = <<threads[t].entry[1].value>>]
                  /\ UNCHANGED cache_dict
    /\ UNCHANGED <<cache_now, calls>>
    /\ UNCHANGED outsideCache

\* set: if len(self._cache) >= self._max_size:
TC_SetLen ==
    /\ \E t \in DOMAIN threads :
          /\ threads[t].pc = "set_len"
          /\ threads' = [threads EXCEPT ![t].pc =
                 IF Len(cache_dict) >= SmallMaxSize THEN "set_min" ELSE "set_store"]
    /\ UNCHANGED <<cache_dict, cache_now, calls>>
    /\ UNCHANGED outsideCache

\* set: oldest_key = min(self._cache.keys(), key=...) (min of an empty
\* sequence raises ValueError)
TC_SetMin ==
    /\ \E t \in DOMAIN threads :
          /\ threads[t].pc = "set_min"
          /\ threads' =
               IF cache_dict = <<>>
               THEN [threads EXCEPT ![t].pc = "raised"]
               ELSE [threads EXCEPT ![t].oldest_key = OldestKey(cache_dict),
                                    ![t].pc = "set_del"]
    /\ UNCHANGED <<cache_dict, cache_now, calls>>
    /\ UNCHANGED outsideCache

\* set: del self._cache[oldest_key] (KeyError when the key is gone)
TC_SetDel ==
    /\ \E t \in DOMAIN threads :
          /\ threads[t].pc = "set_del"
          /\ IF DictHas(cache_dict, threads[t].oldest_key)
             THEN /\ cache_dict' = DictDel(cache_dict, threads[t].oldest_key)
                  /\ threads' = [threads EXCEPT ![t].pc = "set_store"]
             ELSE /\ threads' = [threads EXCEPT ![t].pc = "raised"]
                  /\ UNCHANGED cache_dict
    /\ UNCHANGED <<cache_now, calls>>
    /\ UNCHANGED outsideCache

\* set: self._cache[key] = CacheEntry(value=value, timestamp=time.time())
TC_SetStore ==
    /\ \E t \in DOMAIN threads :
          /\ threads[t].pc = "set_store"
          /\ cache_dict' = DictPut(cache_dict, threads[t].key,
                 CacheEntry(threads[t].key, threads[t].value, cache_now))
          /\ threads' = [threads EXCEPT ![t].pc = "idle", ![t].ret = <<>>]
    /\ UNCHANGED <<cache_now, calls>>
    /\ UNCHANGED outsideCache

\* invalidate: self._cache.pop(key, None)
TC_Pop ==
    /\ \E t \in DOMAIN threads :
          /\ threads[t].pc = "pop"
          /\ cache_dict' = TTLInvalidate(cache_dict, threads[t].key)
          /\ threads' = [threads EXCEPT ![t].pc = "idle", ![t].ret = <<>>]
    /\ UNCHANGED <<cache_now, calls>>
    /\ UNCHANGED outsideCache

CacheNext ==
    \/ CacheClock \/ TC_Call
    \/ TC_GetLookup \/ TC_GetCheck
    \/ TC_SetLen \/ TC_SetMin \/ TC_SetDel \/ TC_SetStore
    \/ TC_Pop

SpecCache == CacheInit /\ [][CacheNext]_vars

\* every list of at most MaxSessions sessions with distinct ids
SessionLists ==
    UNION {
      {s \in [1..n -> [id : Ids, parent_id : ParentIds, title : {"t"},
                       directory : {"d1"}, time_updated : {1}]] :
          \A i, j \in 1..n : i # j => s[i].id # s[j].id}
      : n \in 0..MaxSessions}

TreeInit ==
    /\ tb_sessions \in SessionLists
    /\ tb_pc = "call"
    /\ tb_i = 1
    /\ node_map = <<>>
    /\ children = <<>>
    /\ roots = <<>>
    /\ RefreshParked
    /\ CacheParked
    /\ StatusParked
    /\ SeqParked
    /\ UsageParked
    /\ QueryParked
    /\ RenderParked

\* if not sessions: return []
TB_Empty ==
    /\ tb_pc = "call"
    /\ tb_sessions = <<>>
    /\ tb_pc' = "done"
    /\ UNCHANGED <<tb_sessions, tb_i, node_map, children, roots>>
    /\ UNCHANGED outsideTree

\* Pass 1: create all tree nodes
TB_Pass1 ==
    /\ tb_pc = "call"
    /\ tb_sessions # <<>>
    /\ node_map' = Pass1Map(tb_sessions)
    /\ children' = Pass1Children(tb_sessions)
    /\ roots' = <<>>
    /\ tb_i' = 1
    /\ tb_pc' = "pass2"
    /\ UNCHANGED tb_sessions
    /\ UNCHANGED outsideTree

\* Pass 2: one iteration of "for session in sessions"
TB_Pass2 ==
    /\ tb_pc = "pass2"
    /\ tb_i <= Len(tb_sessions)
    /\ LET st == Attach(node_map, [roots |-> roots, children |-> children],
                        tb_sessions[tb_i])
       IN /\ roots' = st.roots
          /\ children' = st.children
    /\ tb_i' = tb_i + 1
    /\ UNCHANGED <<tb_sessions, tb_pc, node_map>>
    /\ UNCHANGED outsideTree

\* return roots
TB_Return ==
    /\ tb_pc = "pass2"
    /\ tb_i > Len(tb_sessions)
    /\ tb_pc' = "done"
    /\ UNCHANGED <<tb_sessions, tb_i, node_map, children, roots>>
    /\ UNCHANGED outsideTree

TreeNext == TB_Empty \/ TB_Pass1 \/ TB_Pass2 \/ TB_Return

SpecTree == TreeInit /\ [][TreeNext]_vars

\* ====================================================================
\* tree_renderer.py: render_tree_iterative over the forest that
\* build_session_tree returns, nodes expanded or collapsed
\* ====================================================================
\* get_node_type(tree)
LEAF == "leaf"
SUBAGENT == "subagent"
ROOT == "root"

\* Session.is_subagent: parent_id is not None
is_subagent(session) == session.parent_id # None

get_node_type(session, kids) ==
    IF kids = <<>> THEN LEAF
    ELSE IF is_subagent(session) THEN SUBAGENT
    ELSE ROOT

\* get_branch_chars(is_last, node_type): (connector, node_prefix)
get_branch_chars(is_last, node_type) ==
    IF is_last
    THEN [connector |-> "L- ",
          node_prefix |-> IF node_type = SUBAGENT THEN "   " ELSE "|- "]
    ELSE [connector |-> "|- ", node_prefix |-> "|  "]

\* render_tree_node_line(...).text: prefix, connector, node_prefix and the
\* title (here the id of the session the line is for)
render_tree_node_line(session, node_type, prefix, is_last) ==
    LET b == get_branch_chars(is_last, node_type)
    IN [prefix |-> prefix, connector |-> b.connector,
        node_prefix |-> b.node_prefix, id |-> session.id]

\* an item of the stack: (tree, prefix, is_last, depth)
StackItem(id, prefix, is_last, depth) ==
    [id |-> id, prefix |-> prefix, is_last |-> is_last, depth |-> depth]

SessionOf(ss, id) == CHOOSE x \in Range(ss) : x.id = id

RenderInit ==
    /\ rn_sessions \in SessionLists
    /\ rn_roots = BuildTree(rn_sessions).roots
    /\ rn_children = BuildTree(rn_sessions).children
    /\ rn_expanded = [i \in Range(IdsOf(rn_sessions)) |-> TRUE]
    /\ rn_stack = <<>>
    /\ rn_lines = <<>>
    /\ rn_pc = "built"
    /\ TreeParked
    /\ RefreshParked
    /\ CacheParked
    /\ StatusParked
    /\ SeqParked
    /\ UsageParked
    /\ QueryParked

\* SessionTree.toggle_expanded on a node of the forest
toggle_expanded ==
    /\ rn_pc = "built"
    /\ \E i \in DOMAIN rn_expanded :
          rn_expanded' = [rn_expanded EXCEPT ![i] = ~@]
    /\ UNCHANGED <<rn_sessions, rn_roots, rn_children, rn_stack, rn_lines, rn_pc>>
    /\ UNCHANGED outsideRender

\* lines = []; stack = []; "for i, tree in enumerate(trees)"
RN_Call ==
    /\ rn_pc = "built"
    /\ rn_lines' = <<>>
    /\ rn_stack' = [i \in DOMAIN rn_roots |->
                       StackItem(rn_roots[i], <<>>, i = Len(rn_roots), 1)]
    /\ rn_pc' = "loop"
    /\ UNCHANGED <<rn_sessions, rn_roots, rn_children, rn_expanded>>
    /\ UNCHANGED outsideRender

\* one iteration of "while stack": stack.pop(0), the line, the children
RN_Pop ==
    /\ rn_pc = "loop"
    /\ rn_stack # <<>>
    /\ LET item == Head(rn_stack)
           kids == rn_children[item.id]
           session == SessionOf(rn_sessions, item.id)
           new_prefix == Append(item.prefix, IF item.is_last THEN "   " ELSE "|  ")
           pushed == [i \in DOMAIN kids |->
                         StackItem(kids[i], new_prefix, i = Len(kids), item.depth + 1)]
       IN /\ rn_lines' = Append(rn_lines,
                 render_tree_node_line(session, get_node_type(session, kids),
                                       item.prefix, item.is_last))
          /\ rn_stack' = IF rn_expanded[item.id] /\ kids # <<>>
                         THEN Tail(rn_stack) \o pushed
                         ELSE Tail(rn_stack)
    /\ UNCHANGED <<rn_sessions, rn_roots, rn_children, rn_expanded, rn_pc>>
    /\ UNCHANGED outsideRender

\* the stack is empty: return lines
RN_Return ==
    /\ rn_pc = "loop"
    /\ rn_stack = <<>>
    /\ rn_pc' = "done"
    /\ UNCHANGED <<rn_sessions, rn_roots, rn_children, rn_expanded, rn_stack, rn_lines>>
    /\ UNCHANGED outsideRender

RenderNext == toggle_expanded \/ RN_Call \/ RN_Pop \/ RN_Return

SpecRender == RenderInit /\ [][RenderNext]_vars

\* ====================================================================
\* models.py: _get_status_cached applied to every bounded pair of arguments
\* ====================================================================
MaxNow == 310

\* updated_seconds and now (seconds); now may lie before updated_seconds
StatusUpdated == {0, 5, 20}
StatusNows == 0..MaxNow

\* SessionStatus
WORKING == "working"
ACTIVE == "active"
IDLE == "idle"

\* a status function whose first boundary is inclusive
StatusInclusive(updated_seconds, t) ==
    LET elapsed == t - updated_seconds
    IN IF elapsed <= 30 THEN WORKING
       ELSE IF elapsed < 300 THEN ACTIVE
       ELSE IDLE

\* elapsed = now - updated_seconds; < 30 WORKING; < 300 ACTIVE; else IDLE
_get_status_cached(updated_seconds, t) ==
    LET elapsed == t - updated_seconds
    IN IF elapsed < 30 THEN WORKING
       ELSE IF elapsed < 300 THEN ACTIVE
       ELSE IDLE

StatusInit ==
    /\ st_updated \in StatusUpdated
    /\ st_now \in StatusNows
    /\ st_status = <<>>
    /\ TreeParked
    /\ RefreshParked
    /\ CacheParked
    /\ SeqParked
    /\ UsageParked
    /\ QueryParked
    /\ RenderParked

\* Session.status: the call _get_status_cached(updated_seconds, now)
StatusCall ==
    /\ st_status = <<>>
    /\ st_status' = <<_get_status_cached(st_updated, st_now)>>
    /\ UNCHANGED <<st_updated, st_now>>
    /\ UNCHANGED outsideStatus

StatusNext == StatusCall

SpecStatus == StatusInit /\ [][StatusNext]_vars

\* ====================================================================
\* db.py: one TTLCache(ttl, max_size) used by a single caller; every
\* method runs to completion
\* ====================================================================
MaxSeqCalls == 4
MaxSeqSize == 2

SeqKeys == {"k1", "k2", "k3"}
SeqValues == {"v1", "v2"}
\* TTLCache() as the module constructs its caches: ttl = CACHE_TTL
SeqTtls == {CACHE_TTL}

DictKeys(d) == {d[i].key : i \in DOMAIN d}

CacheSeqInit ==
    /\ sq_cache = <<>>
    /\ sq_now = 0
    /\ sq_ttl \in SeqTtls
    /\ sq_max_size \in 1..MaxSeqSize
    /\ sq_calls = 0
    /\ sq_last = <<>>
    /\ sq_shadow = [k \in SeqKeys |-> <<>>]
    /\ TreeParked
    /\ RefreshParked
    /\ CacheParked
    /\ StatusParked
    /\ UsageParked
    /\ QueryParked
    /\ RenderParked

\* time.time() advances between two calls
SQ_Clock ==
    /\ \E d \in {CACHE_TTL, CACHE_TTL + 1} :
          /\ sq_now + d <= MaxClock
          /\ sq_now' = sq_now + d
    /\ UNCHANGED <<sq_cache, sq_ttl, sq_max_size, sq_calls, sq_last, sq_shadow>>
    /\ UNCHANGED outsideCacheSeq

\* cache.get(key)
SQ_Get ==
    /\ sq_calls < MaxSeqCalls
    /\ \E k \in SeqKeys :
          LET r == TTLGet(sq_cache, k, sq_now, sq_ttl)
          IN /\ sq_cache' = r.cache
             /\ sq_last' = <<[op |-> "get", key |-> k, ret |-> r.value,
                              evicted |-> <<>>]>>
             /\ sq_shadow' =
                  IF r.value # <<>>
                  THEN [sq_shadow EXCEPT ![k] = <<[@[1] EXCEPT !.read = TRUE]>>]
                  ELSE sq_shadow
    /\ sq_calls' = sq_calls + 1
    /\ UNCHANGED <<sq_now, sq_ttl, sq_max_size>>
    /\ UNCHANGED outsideCacheSeq

\* cache.set(key, value)
SQ_Set ==
    /\ sq_calls < MaxSeqCalls
    /\ \E k \in SeqKeys, v \in SeqValues :
          LET c == TTLSet(sq_cache, k, v, sq_now, sq_max_size)
              gone == DictKeys(sq_cache) \ DictKeys(c)
          IN /\ sq_cache' = c
             /\ sq_last' = <<[op |-> "set", key |-> k, ret |-> <<>>,
                              evicted |-> IF gone = {} THEN <<>>
                                          ELSE LET e == CHOOSE e \in gone : TRUE
                                               IN <<[key |-> e,
                                                     read |-> sq_shadow[e][1].read]>>]>>
             /\ sq_shadow' =
                  [j \in SeqKeys |->
                      IF j = k THEN <<[value |-> v, time |-> sq_now, read |-> FALSE]>>
                      ELSE IF j \in gone THEN <<>>
                      ELSE sq_shadow[j]]
    /\ sq_calls' = sq_calls + 1
    /\ UNCHANGED <<sq_now, sq_ttl, sq_max_size>>
    /\ UNCHANGED outsideCacheSeq

\* cache.invalidate(key)
SQ_Invalidate ==
    /\ sq_calls < MaxSeqCalls
    /\ \E k \in SeqKeys :
          /\ sq_cache' = TTLInvalidate(sq_cache, k)
          /\ sq_last' = <<[op |-> "invalidate", key |-> k, ret |-> <<>>,
                           evicted |-> <<>>]>>
          /\ sq_shadow' = [sq_shadow EXCEPT ![k] = <<>>]
    /\ sq_calls' = sq_calls + 1
    /\ UNCHANGED <<sq_now, sq_ttl, sq_max_size>>
    /\ UNCHANGED outsideCacheSeq

\* cache.clear()
SQ_Clear ==
    /\ sq_calls < MaxSeqCalls
    /\ sq_cache' = TTLClear(sq_cache)
    /\ sq_last' = <<[op |-> "clear", key |-> "k1", ret |-> <<>>, evicted |-> <<>>]>>
    /\ sq_shadow' = [k \in SeqKeys |-> <<>>]
    /\ sq_calls' = sq_calls + 1
    /\ UNCHANGED <<sq_now, sq_ttl, sq_max_size>>
    /\ UNCHANGED outsideCacheSeq

CacheSeqNext == SQ_Clock \/ SQ_Get \/ SQ_Set \/ SQ_Invalidate \/ SQ_Clear

SpecCacheSeq == CacheSeqInit /\ [][CacheSeqNext]_vars

\* ====================================================================
\* db.py: _extract_retry_after, get_all_model_usage, get_session_tokens
\* over every bounded message table
\* ====================================================================
MaxMessages == 2

UsageModels == {"m1", "m2"}
UsageSessions == {"s1", "s2"}

\* error.data.message, reduced to what the code reads from it: whether
\* its lower-cased text contains "rate limit" or "quota", and the groups
\* of the first match of "retry after\s+(\d+)\s*(second|minute|min|hour)"
ErrorMessage(hasRateLimit, hasQuota, match) ==
    [rate_limit |-> hasRateLimit, quota |-> hasQuota, retry |-> match]

NoMessage == ErrorMessage(FALSE, FALSE, <<>>)

\* msg["error"]: name and data {retry_after, retryAfter, message}
Error(name, retry_after, retryAfter, message) ==
    [name |-> name,
     data |-> [retry_after |-> retry_after, retryAfter |-> retryAfter,
               message |-> message]]

UsageErrors ==
    {Error("rate_limit_error", <<>>, <<>>, NoMessage),
     Error("rate_limit_error", <<1500>>, <<>>, NoMessage),
     Error("APIError", <<>>, <<>>,
           ErrorMessage(TRUE, FALSE, <<[value |-> 2, unit |-> "min"]>>)),
     Error("APIError", <<900>>, <<>>, NoMessage)}

\* "rate_limit" in error_name.lower()
NameHasRateLimit(name) == name = "rate_limit_error"

\* the unit of a match to milliseconds
UnitMs(unit) ==
    IF unit \in {"minute", "min"} THEN 60 * 1000
    ELSE IF unit = "hour" THEN 3600 * 1000
    ELSE 1000

\* _extract_retry_after(error): Optional milliseconds
_extract_retry_after(error) ==
    LET d == error.data
    IN IF d.retry_after # <<>> /\ d.retry_after[1] # 0 THEN <<d.retry_after[1]>>
       ELSE IF d.retryAfter # <<>> /\ d.retryAfter[1] # 0 THEN <<d.retryAfter[1]>>
       ELSE IF d.message.retry # <<>>
            THEN <<d.message.retry[1].value * UnitMs(d.message.retry[1].unit)>>
            ELSE <<>>

\* the test that makes an error a rate-limit error
IsRateLimit(error) ==
    \/ NameHasRateLimit(error.name)
    \/ error.data.message.rate_limit
    \/ error.data.message.quota

\* a row of the message table: time_created and the fields of data.
\* defect names what is wrong with the payload: "unparseable" (data is not
\* JSON), "tokens_null" ("tokens": null), "error_data_null"
\* ("error": {"data": null}); the other fields then say what the payload
\* would hold without the defect
MessageRow(t, role, model, input, error, sid) ==
    [time_created |-> t, role |-> role, providerID |-> "p", modelID |-> model,
     tokens |-> [input |-> input, output |-> <<4>>], error |-> error,
     session_id |-> sid, defect |-> {}]

\* json_valid(data) = 1
JsonValid(row) == "unparseable" \notin row.defect

\* tokens = msg.get("tokens", {}); tokens.get("input", 0) raises
\* AttributeError when the payload holds "tokens": null
TokensRaise(row) == "tokens_null" \in row.defect

\* error.get("data", {}).get("message", "") raises AttributeError when the
\* payload holds "error": {"data": null}
ErrorDataRaises(row) == "error_data_null" \in row.defect

\* the rows a table can hold at one position (time_created is set by the
\* position, the table being kept newest first)
UsageRowKinds ==
    {MessageRow(0, "assistant", m, i, <<>>, "s1") :
        m \in UsageModels, i \in {<<>>, <<3>>}}
    \cup
    {MessageRow(0, "assistant", m, <<3>>, <<e>>, "s1") :
        m \in UsageModels, e \in UsageErrors}
    \cup
    {MessageRow(0, "user", m, <<3>>, <<Error("rate_limit_error", <<1500>>, <<>>, NoMessage)>>, "s1") :
        m \in UsageModels}

TokenRowKinds ==
    {MessageRow(0, "assistant", m, i, <<>>, sid) :
        m \in UsageModels, i \in {<<>>, <<3>>}, sid \in UsageSessions}
    \cup {MessageRow(0, "user", "m1", <<3>>, <<>>, "s1")}

\* tables of n rows, ORDER BY time_created DESC
TablesOf(kinds, n) ==
    {[k \in 1..n |-> [rows[k] EXCEPT !.time_created = 10 * (n - k + 1)]] :
        rows \in [1..n -> kinds]}

\* f"{provider}/{model}"
ModelKey(row) == <<row.providerID, row.modelID>>

\* tokens.get("input", 0) or 0
TokenCount(t) == IF t = <<>> THEN 0 ELSE t[1]

\* models[model_key] = {...} of get_all_model_usage
NewUsageEntry(row) ==
    [key |-> ModelKey(row), provider |-> row.providerID, model |-> row.modelID,
     input_tokens |-> 0, output_tokens |-> 0, request_count |-> 0,
     last_used |-> row.time_created, last_rate_limit |-> <<>>,
     retry_after_ms |-> <<>>, error_count |-> 0, last_error |-> <<>>,
     last_error_type |-> <<>>]

\* one iteration of the loop over the assistant rows
ScanUsageRow(models, row) ==
    LET k == ModelKey(row)
        ms == IF DictHas(models, k) THEN models ELSE Append(models, NewUsageEntry(row))
        m == DictGet(ms, k)
    IN DictPut(ms, k,
         [m EXCEPT !.input_tokens = @ + TokenCount(row.tokens.input),
                   !.output_tokens = @ + TokenCount(row.tokens.output),
                   !.request_count = @ + 1])

\* a rate-limit branch without the "is None" guard
RateLimitOverwrite(m, row) ==
    LET error == row.error[1]
        retry_after == _extract_retry_after(error)
    IN [m EXCEPT !.last_rate_limit = <<row.time_created>>,
                 !.retry_after_ms = IF retry_after # <<>> /\ retry_after[1] # 0
                                    THEN retry_after ELSE @]

\* the rate-limit branch of the error loop, for an entry m
RateLimitFirst(m, row) ==
    LET error == row.error[1]
        retry_after == _extract_retry_after(error)
    IN IF m.last_rate_limit = <<>>
       THEN [m EXCEPT !.last_rate_limit = <<row.time_created>>,
                      !.retry_after_ms = IF retry_after # <<>> /\ retry_after[1] # 0
                                         THEN retry_after ELSE @]
       ELSE m

\* one iteration of the loop over the error rows
ScanErrorRow(models, row) ==
    LET k == ModelKey(row)
        error == row.error[1]
    IN IF ~DictHas(models, k) THEN models
       ELSE LET m0 == DictGet(models, k)
                m1 == [m0 EXCEPT !.error_count = @ + 1,
                                 !.last_error = IF @ = <<>> THEN <<row.time_created>> ELSE @,
                                 !.last_error_type =
                                     IF m0.last_error = <<>> THEN <<error.name>> ELSE @]
                m2 == IF IsRateLimit(error) THEN RateLimitFirst(m1, row) ELSE m1
            IN DictPut(models, k, m2)

\* a total that leaves out the output tokens
TotalOfInputOnly(input_tokens, output_tokens) == input_tokens

\* total_tokens=m["input_tokens"] + m["output_tokens"]
TotalOf(input_tokens, output_tokens) == input_tokens + output_tokens

\* ModelUsage(...) built from a models entry
ModelUsage(m) ==
    [provider |-> m.provider, model |-> m.model,
     request_count |-> m.request_count,
     input_tokens |-> m.input_tokens, output_tokens |-> m.output_tokens,
     total_tokens |-> TotalOf(m.input_tokens, m.output_tokens),
     last_used |-> m.last_used, last_rate_limit |-> m.last_rate_limit,
     retry_after_ms |-> m.retry_after_ms, error_count |-> m.error_count,
     last_error |-> m.last_error, last_error_type |-> m.last_error_type]

\* list without its i-th element
RemoveAt(list, i) ==
    [j \in 1..(Len(list) - 1) |-> IF j < i THEN list[j] ELSE list[j + 1]]

\* sorted(result, key=total_tokens, reverse=True): stable
RECURSIVE SortByTotal(_)
SortByTotal(list) ==
    IF list = <<>> THEN <<>>
    ELSE LET i == CHOOSE i \in DOMAIN list :
                     /\ \A j \in DOMAIN list : list[j].total_tokens <= list[i].total_tokens
                     /\ \A j \in 1..(i - 1) : list[j].total_tokens < list[i].total_tokens
         IN <<list[i]>> \o SortByTotal(RemoveAt(list, i))

\* models[model_key] = {...} of get_session_tokens
NewTokenEntry(row) ==
    [key |-> ModelKey(row), provider |-> row.providerID, model |-> row.modelID,
     input_tokens |-> 0, output_tokens |-> 0, request_count |-> 0,
     last_used |-> row.time_created]

\* one iteration of the loop of get_session_tokens: the per-model part
ScanTokenRow(models, row) ==
    LET k == ModelKey(row)
        ms == IF DictHas(models, k) THEN models ELSE Append(models, NewTokenEntry(row))
        m == DictGet(ms, k)
    IN DictPut(ms, k,
         [m EXCEPT !.input_tokens = @ + TokenCount(row.tokens.input),
                   !.output_tokens = @ + TokenCount(row.tokens.output),
                   !.request_count = @ + 1])

\* ModelUsage(...) built from a models entry of get_session_tokens
SessionModelUsage(m) ==
    [provider |-> m.provider, model |-> m.model,
     request_count |-> m.request_count,
     input_tokens |-> m.input_tokens, output_tokens |-> m.output_tokens,
     total_tokens |-> TotalOf(m.input_tokens, m.output_tokens),
     last_used |-> m.last_used, error_count |-> 0, last_error |-> <<>>,
     last_error_type |-> <<>>]

\* SessionTokens(...)
SessionTokens(sid, totals, models) ==
    [session_id |-> sid,
     total_input_tokens |-> totals.input, total_output_tokens |-> totals.output,
     total_tokens |-> TotalOf(totals.input, totals.output),
     request_count |-> totals.requests,
     models |-> [k \in DOMAIN models |-> SessionModelUsage(models[k])]]

\* WHERE json_extract(data, '$.role') = 'assistant' (newest first)
AssistantRows(rows) ==
    SelectSeq(rows, LAMBDA r : JsonValid(r) /\ r.role = "assistant")

\* WHERE json_extract(data, '$.error') IS NOT NULL (newest first)
ErrorRows(rows) == SelectSeq(rows, LAMBDA r : JsonValid(r) /\ r.error # <<>>)

Reverse(list) == [k \in DOMAIN list |-> list[Len(list) - k + 1]]

\* WHERE session_id = ? AND role = 'assistant' ORDER BY time_created ASC
SessionRows(rows, sid) ==
    Reverse(SelectSeq(rows, LAMBDA r : /\ r.session_id = sid
                                       /\ JsonValid(r)
                                       /\ r.role = "assistant"))

NoTotals == [input |-> 0, output |-> 0, requests |-> 0]

UsageInit ==
    /\ \/ /\ ag_fn = "get_all_model_usage"
          /\ ag_rows \in UNION {TablesOf(UsageRowKinds, n) : n \in 0..MaxMessages}
       \/ /\ ag_fn = "get_session_tokens"
          /\ ag_rows \in UNION {TablesOf(TokenRowKinds, n) : n \in 0..MaxMessages}
    /\ ag_session = "s1"
    /\ ag_pc = "call"
    /\ ag_i = 1
    /\ ag_models = <<>>
    /\ ag_totals = NoTotals
    /\ ag_result = <<>>
    /\ TreeParked
    /\ RefreshParked
    /\ CacheParked
    /\ StatusParked
    /\ SeqParked
    /\ QueryParked
    /\ RenderParked

\* the store file exists: the locals are initialised and the rows fetched
AG_Call ==
    /\ ag_pc = "call"
    /\ ag_pc' = "scan"
    /\ ag_models' = <<>>
    /\ ag_totals' = NoTotals
    /\ ag_i' = 1
    /\ UNCHANGED <<ag_fn, ag_rows, ag_session, ag_result>>
    /\ UNCHANGED outsideUsage

\* get_all_model_usage: one iteration of "for row in rows"
AG_Scan ==
    /\ ag_fn = "get_all_model_usage"
    /\ ag_pc = "scan"
    /\ ag_i <= Len(AssistantRows(ag_rows))
    /\ ~TokensRaise(AssistantRows(ag_rows)[ag_i])
    /\ ag_models' = ScanUsageRow(ag_models, AssistantRows(ag_rows)[ag_i])
    /\ ag_i' = ag_i + 1
    /\ UNCHANGED <<ag_fn, ag_rows, ag_session, ag_pc, ag_totals, ag_result>>
    /\ UNCHANGED outsideUsage

\* get_all_model_usage: the first loop ends, the error rows are fetched
AG_ScanDone ==
    /\ ag_fn = "get_all_model_usage"
    /\ ag_pc = "scan"
    /\ ag_i > Len(AssistantRows(ag_rows))
    /\ ag_pc' = "errors"
    /\ ag_i' = 1
    /\ UNCHANGED <<ag_fn, ag_rows, ag_session, ag_models, ag_totals, ag_result>>
    /\ UNCHANGED outsideUsage

\* get_all_model_usage: one iteration of "for row in error_rows"
AG_Error ==
    /\ ag_pc = "errors"
    /\ ag_i <= Len(ErrorRows(ag_rows))
    /\ ~ErrorDataRaises(ErrorRows(ag_rows)[ag_i])
    /\ ag_models' = ScanErrorRow(ag_models, ErrorRows(ag_rows)[ag_i])
    /\ ag_i' = ag_i + 1
    /\ UNCHANGED <<ag_fn, ag_rows, ag_session, ag_pc, ag_totals, ag_result>>
    /\ UNCHANGED outsideUsage

\* get_all_model_usage: convert to ModelUsage, sort, return
AG_Return ==
    /\ ag_pc = "errors"
    /\ ag_i > Len(ErrorRows(ag_rows))
    /\ ag_result' = <<SortByTotal([k \in DOMAIN ag_models |-> ModelUsage(ag_models[k])])>>
    /\ ag_pc' = "done"
    /\ UNCHANGED <<ag_fn, ag_rows, ag_session, ag_i, ag_models, ag_totals>>
    /\ UNCHANGED outsideUsage

\* get_session_tokens: one iteration of "for row in rows"
TK_Scan ==
    /\ ag_fn = "get_session_tokens"
    /\ ag_pc = "scan"
    /\ ag_i <= Len(SessionRows(ag_rows, ag_session))
    /\ ~TokensRaise(SessionRows(ag_rows, ag_session)[ag_i])
    /\ LET row == SessionRows(ag_rows, ag_session)[ag_i]
       IN /\ ag_totals' = [input |-> ag_totals.input + TokenCount(row.tokens.input),
                           output |-> ag_totals.output + TokenCount(row.tokens.output),
                           requests |-> ag_totals.requests + 1]
          /\ ag_models' = ScanTokenRow(ag_models, row)
    /\ ag_i' = ag_i + 1
    /\ UNCHANGED <<ag_fn, ag_rows, ag_session, ag_pc, ag_result>>
    /\ UNCHANGED outsideUsage

\* get_session_tokens: convert to ModelUsage, return SessionTokens
TK_Return ==
    /\ ag_fn = "get_session_tokens"
    /\ ag_pc = "scan"
    /\ ag_i > Len(SessionRows(ag_rows, ag_session))
    /\ ag_result' = <<SessionTokens(ag_session, ag_totals, ag_models)>>
    /\ ag_pc' = "done"
    /\ UNCHANGED <<ag_fn, ag_rows, ag_session, ag_i, ag_models, ag_totals>>
    /\ UNCHANGED outsideUsage

UsageNext ==
    \/ AG_Call \/ AG_Scan \/ AG_ScanDone \/ AG_Error \/ AG_Return
    \/ TK_Scan \/ TK_Return

SpecUsage == UsageInit /\ [][UsageNext]_vars

\* --------------------------------------------------------------------
\* the aggregators over tables that also hold defective payloads
\* --------------------------------------------------------------------
\* msg.get("providerID", "unknown"), msg.get("modelID", "unknown") for a
\* payload without the two fields
UnknownModelRow ==
    [MessageRow(0, "assistant", "unknown", <<>>, <<>>, "s1")
        EXCEPT !.providerID = "unknown"]

PayloadRowKinds ==
    {MessageRow(0, "assistant", "m1", <<3>>, <<>>, "s1"),
     [MessageRow(0, "assistant", "m1", <<3>>, <<>>, "s1")
         EXCEPT !.defect = {"unparseable"}],
     [MessageRow(0, "assistant", "m1", <<3>>, <<>>, "s1")
         EXCEPT !.defect = {"tokens_null"}],
     UnknownModelRow,
     MessageRow(0, "assistant", "m1", <<3>>,
                <<Error("rate_limit_error", <<1500>>, <<>>, NoMessage)>>, "s1"),
     [MessageRow(0, "assistant", "m1", <<3>>,
                 <<Error("rate_limit_error", <<>>, <<>>, NoMessage)>>, "s1")
         EXCEPT !.defect = {"error_data_null"}]}

PayloadInit ==
    /\ ag_fn \in {"get_all_model_usage", "get_session_tokens"}
    /\ ag_rows \in UNION {TablesOf(PayloadRowKinds, n) : n \in 0..MaxMessages}
    /\ ag_session = "s1"
    /\ ag_pc = "call"
    /\ ag_i = 1
    /\ ag_models = <<>>
    /\ ag_totals = NoTotals
    /\ ag_result = <<>>
    /\ TreeParked
    /\ RefreshParked
    /\ CacheParked
    /\ StatusParked
    /\ SeqParked
    /\ QueryParked
    /\ RenderParked

\* get_all_model_usage: tokens.get raises inside the first loop; the
\* except clause names JSONDecodeError and KeyError only
AG_ScanRaise ==
    /\ ag_fn = "get_all_model_usage"
    /\ ag_pc = "scan"
    /\ ag_i <= Len(AssistantRows(ag_rows))
    /\ TokensRaise(AssistantRows(ag_rows)[ag_i])
    /\ ag_pc' = "raised"
    /\ UNCHANGED <<ag_fn, ag_rows, ag_session, ag_i, ag_models, ag_totals, ag_result>>
    /\ UNCHANGED outsideUsage

\* get_all_model_usage: error.get("data", {}).get raises inside the error
\* loop
AG_ErrorRaise ==
    /\ ag_pc = "errors"
    /\ ag_i <= Len(ErrorRows(ag_rows))
    /\ ErrorDataRaises(ErrorRows(ag_rows)[ag_i])
    /\ ag_pc' = "raised"
    /\ UNCHANGED <<ag_fn, ag_rows, ag_session, ag_i, ag_models, ag_totals, ag_result>>
    /\ UNCHANGED outsideUsage

\* get_session_tokens: tokens.get raises inside the loop
TK_ScanRaise ==
    /\ ag_fn = "get_session_tokens"
    /\ ag_pc = "scan"
    /\ ag_i <= Len(SessionRows(ag_rows, ag_session))
    /\ TokensRaise(SessionRows(ag_rows, ag_session)[ag_i])
    /\ ag_pc' = "raised"
    /\ UNCHANGED <<ag_fn, ag_rows, ag_session, ag_i, ag_models, ag_totals, ag_result>>
    /\ UNCHANGED outsideUsage

PayloadNext == UsageNext \/ AG_ScanRaise \/ AG_ErrorRaise \/ TK_ScanRaise

SpecPayload == PayloadInit /\ [][PayloadNext]_vars

\* ====================================================================
\* query.py: the schema registry, QueryBuilder.select and count
\* ====================================================================
MaxColumns == 2

\* TABLES: table name -> column names, in declaration order
SESSION_TABLE ==
    <<"id", "parent_id", "project_id", "title", "directory", "time_created",
      "time_updated">>
MESSAGE_TABLE == <<"id", "session_id", "time_created", "time_updated", "data">>
TODO_TABLE ==
    <<"session_id", "content", "status", "priority", "position", "time_created",
      "time_updated">>
TABLES ==
    [t \in {"session", "message", "todo"} |->
        CASE t = "session" -> SESSION_TABLE
          [] t = "message" -> MESSAGE_TABLE
          [] OTHER -> TODO_TABLE]

\* the names callers pass: a column of every table, a column of message
\* only, and a name no table has
QueryTables == {"session", "message", "sesion"}
QueryNames == {"id", "data", "titel"}

\* lists of at most MaxColumns names; dict keys are distinct
NameLists == UNION {[1..n -> QueryNames] : n \in 0..MaxColumns}
NameKeys == {l \in NameLists : \A i, j \in DOMAIN l : i # j => l[i] # l[j]}

\* order_by: None or a column name behind a number of "-"
OrderBys == {<<>>} \cup {<<[dashes |-> d, name |-> c]>> : d \in {0, 1}, c \in QueryNames}

\* raise ValueError(f"Unknown table: {table_name}")
UnknownTable(table_name) ==
    [type |-> "ValueError", unknown |-> table_name, valid |-> <<>>]

\* raise ValueError(f"Unknown column '{column}' in table ... Valid: {valid}")
UnknownColumn(table, column) ==
    [type |-> "ValueError", unknown |-> column, valid |-> TABLES[table]]

\* _validate_column: does the table have the column
HasColumn(table, column) == column \in Range(TABLES[table])

QueryInit ==
    /\ \/ \E t \in QueryTables, c \in {<<>>} \cup {<<l>> : l \in NameLists},
             w \in NameKeys, o \in OrderBys, lim \in {<<>>, <<10>>} :
             qb_call = <<[fn |-> "select", table |-> t, columns |-> c, where |-> w,
                          order_by |-> o, limit |-> lim]>>
       \/ \E t \in QueryTables, w \in NameKeys :
             qb_call = <<[fn |-> "count", table |-> t, columns |-> <<>>, where |-> w,
                          order_by |-> <<>>, limit |-> <<>>]>>
    /\ qb_pc = "validate_table"
    /\ qb_i = 1
    /\ qb_col_list = <<>>
    /\ qb_query = <<>>
    /\ qb_connections = 0
    /\ qb_executed = <<>>
    /\ qb_error = <<>>
    /\ TreeParked
    /\ RefreshParked
    /\ CacheParked
    /\ StatusParked
    /\ SeqParked
    /\ UsageParked
    /\ RenderParked

\* table_obj = self._validate_table(table)
QB_ValidateTable ==
    /\ qb_pc = "validate_table"
    /\ IF qb_call[1].table \in DOMAIN TABLES
       THEN /\ qb_pc' = IF qb_call[1].fn = "select" THEN "columns" ELSE "build"
            /\ UNCHANGED qb_error
       ELSE /\ qb_pc' = "raised"
            /\ qb_error' = <<UnknownTable(qb_call[1].table)>>
    /\ UNCHANGED <<qb_call, qb_i, qb_col_list, qb_query, qb_connections, qb_executed>>
    /\ UNCHANGED outsideQuery

\* select: columns is None: col_list = every column of the table
QB_AllColumns ==
    /\ qb_pc = "columns"
    /\ qb_call[1].columns = <<>>
    /\ qb_col_list' = TABLES[qb_call[1].table]
    /\ qb_pc' = "build"
    /\ UNCHANGED <<qb_call, qb_i, qb_query, qb_connections, qb_executed, qb_error>>
    /\ UNCHANGED outsideQuery

\* select: one element of [self._validate_column(table_obj, c).name for c
\* in columns], or the end of the list
QB_Column ==
    /\ qb_pc = "columns"
    /\ qb_call[1].columns # <<>>
    /\ LET columns == qb_call[1].columns[1]
       IN IF qb_i > Len(columns)
          THEN /\ qb_pc' = "build"
               /\ qb_i' = 1
               /\ UNCHANGED <<qb_col_list, qb_error>>
          ELSE IF HasColumn(qb_call[1].table, columns[qb_i])
          THEN /\ qb_col_list' = Append(qb_col_list, columns[qb_i])
               /\ qb_i' = qb_i + 1
               /\ UNCHANGED <<qb_pc, qb_error>>
          ELSE /\ qb_pc' = "raised"
               /\ qb_error' = <<UnknownColumn(qb_call[1].table, columns[qb_i])>>
               /\ UNCHANGED <<qb_i, qb_col_list>>
    /\ UNCHANGED <<qb_call, qb_query, qb_connections, qb_executed>>
    /\ UNCHANGED outsideQuery

\* query = f"SELECT {cols_sql} FROM {table}" / f"SELECT COUNT(*) FROM {table}"
QB_Build ==
    /\ qb_pc = "build"
    /\ qb_query' = <<[select |-> IF qb_call[1].fn = "select" THEN qb_col_list
                                 ELSE <<"COUNT(*)">>,
                      from |-> qb_call[1].table, where |-> <<>>,
                      order_by |-> <<>>, limit |-> <<>>]>>
    /\ qb_pc' = "where"
    /\ qb_i' = 1
    /\ UNCHANGED <<qb_call, qb_col_list, qb_connections, qb_executed, qb_error>>
    /\ UNCHANGED outsideQuery

\* one iteration of "for col_name, value in where.items()", or the end of
\* the loop with query += " WHERE " + ...
QB_Where ==
    /\ qb_pc = "where"
    /\ LET where == qb_call[1].where
       IN IF qb_i > Len(where)
          THEN /\ qb_pc' = IF qb_call[1].fn = "select" THEN "order_by" ELSE "execute"
               /\ UNCHANGED <<qb_i, qb_query, qb_error>>
          ELSE IF HasColumn(qb_call[1].table, where[qb_i])
          THEN /\ qb_query' = <<[qb_query[1] EXCEPT !.where = Append(@, where[qb_i])]>>
               /\ qb_i' = qb_i + 1
               /\ UNCHANGED <<qb_pc, qb_error>>
          ELSE /\ qb_pc' = "raised"
               /\ qb_error' = <<UnknownColumn(qb_call[1].table, where[qb_i])>>
               /\ UNCHANGED <<qb_i, qb_query>>
    /\ UNCHANGED <<qb_call, qb_col_list, qb_connections, qb_executed>>
    /\ UNCHANGED outsideQuery

\* select: if order_by: desc = startswith("-"); col = lstrip("-");
\* validate; query += " ORDER BY ..."; then if limit: query += " LIMIT ..."
QB_OrderBy ==
    /\ qb_pc = "order_by"
    /\ LET order_by == qb_call[1].order_by
       IN IF order_by = <<>>
          THEN /\ qb_query' = <<[qb_query[1] EXCEPT !.limit = qb_call[1].limit]>>
               /\ qb_pc' = "execute"
               /\ UNCHANGED qb_error
          ELSE IF HasColumn(qb_call[1].table, order_by[1].name)
          THEN /\ qb_query' =
                    <<[qb_query[1] EXCEPT
                         !.order_by = <<[col |-> order_by[1].name,
                                         direction |-> IF order_by[1].dashes > 0
                                                       THEN "DESC" ELSE "ASC"]>>,
                         !.limit = qb_call[1].limit]>>
               /\ qb_pc' = "execute"
               /\ UNCHANGED qb_error
          ELSE /\ qb_pc' = "raised"
               /\ qb_error' = <<UnknownColumn(qb_call[1].table, order_by[1].name)>>
               /\ UNCHANGED qb_query
    /\ UNCHANGED <<qb_call, qb_i, qb_col_list, qb_connections, qb_executed>>
    /\ UNCHANGED outsideQuery

\* conn = self._get_connection(); conn.execute(query, params); conn.close()
QB_Execute ==
    /\ qb_pc = "execute"
    /\ qb_connections' = qb_connections + 1
    /\ qb_executed' = Append(qb_executed, qb_query[1])
    /\ qb_pc' = "done"
    /\ UNCHANGED <<qb_call, qb_i, qb_col_list, qb_query, qb_error>>
    /\ UNCHANGED outsideQuery

QueryNext ==
    \/ QB_ValidateTable \/ QB_AllColumns \/ QB_Column \/ QB_Build
    \/ QB_Where \/ QB_OrderBy \/ QB_Execute

SpecQuery == QueryInit /\ [][QueryNext]_vars

\* number of nodes of the subtree under node n (n and its descendants);
\* fuel bounds the walk by the number of nodes
RECURSIVE CountTree(_, _, _)
CountTree(ch, n, fuel) ==
    IF fuel = 0 THEN 0
    ELSE 1 + SeqSum([k \in DOMAIN ch[n] |-> CountTree(ch, ch[n][k], fuel - 1)])

ForestCount(rs, ch) ==
    SeqSum([k \in DOMAIN rs |-> CountTree(ch, rs[k], MaxSessions + 2)])

\* C1: when build_session_tree has returned, the forest under the returned
\* roots (roots plus all their descendants) has exactly len(sessions) nodes.
C1_NodeCount ==
    tb_pc = "done" => ForestCount(roots, children) = Len(tb_sessions)

InputIds == Range(IdsOf(tb_sessions))
IsRootSession(s) == ~ParentSet(s.parent_id) \/ s.parent_id \notin InputIds

\* C2: the returned roots are, in input order, exactly the sessions whose
\* parent_id is unset or names no session of the list, and the children of
\* each node are, in input order, exactly the sessions naming it as parent.
C2_RootsAndChildren ==
    tb_pc = "done" =>
        /\ roots = IdsOf(SelectSeq(tb_sessions, IsRootSession))
        /\ \A n \in InputIds :
              children[n] =
                IdsOf(SelectSeq(tb_sessions, LAMBDA s : s.parent_id = n))

\* a finished build whose input lists a child before its parent and also
\* holds a session whose parent is absent, which was made a root
C2_Witness ==
    /\ tb_pc = "done"
    /\ \E i, j \in DOMAIN tb_sessions :
          i < j /\ tb_sessions[i].parent_id = tb_sessions[j].id
    /\ \E k \in DOMAIN tb_sessions :
          /\ tb_sessions[k].parent_id = Missing
          /\ tb_sessions[k].id \in Range(roots)

CyclicPair(a, b) ==
    /\ a # b
    /\ \E i, j \in DOMAIN tb_sessions :
          /\ tb_sessions[i].id = a /\ tb_sessions[i].parent_id = b
          /\ tb_sessions[j].id = b /\ tb_sessions[j].parent_id = a

\* C3: for an input holding a cyclic pair A.parent_id = B, B.parent_id = A,
\* the finished build has both A and B among the returned roots.
C3_CyclicPairRoots ==
    tb_pc = "done" =>
        \A a, b \in Ids :
            CyclicPair(a, b) => a \in Range(roots) /\ b \in Range(roots)

\* ---------------------------------------------------------------------
\* the refresh controller
\* ---------------------------------------------------------------------

\* every SessionsLoaded message posted so far
Posted == Range(queue) \cup Range(delivered)

\* C4: when two consecutive runs of _load_data read the same session list
\* and the second is an interval tick (not a forced reload), only the first
\* posts a snapshot: once the first has posted one, the second posts none.
C4_OneSnapshot ==
    \A n \in DOMAIN tickLog :
        (/\ n + 1 \in DOMAIN tickLog
         /\ tickLog[n].done /\ tickLog[n + 1].done
         /\ ~tickLog[n + 1].forced
         /\ tickLog[n + 1].list = tickLog[n].list
         /\ \E m \in Posted : m.tick = n)
        => ~\E m \in Posted : m.tick = n + 1

\* the hash of the projection {id, title, directory, time_updated} of a list
ProjectedHash(list) ==
    [ok |-> TRUE,
     digest |-> [k \in DOMAIN list |->
                    [id |-> list[k].id, title |-> list[k].title,
                     directory |-> list[k].directory,
                     time_updated |-> list[k].time_updated]]]

OnlyTimeAdvanced(a, b) ==
    /\ Len(a) = Len(b) /\ a # b
    /\ \A k \in DOMAIN a :
          /\ a[k].id = b[k].id /\ a[k].title = b[k].title
          /\ a[k].directory = b[k].directory
          /\ a[k].time_updated <= b[k].time_updated

C6_OneTickInFlight == Cardinality(Running) <= 1

\* C8: snapshots are handled by on_sessions_loaded in the order in which
\* the runs that produced them read the store.
C8_InOrderDelivery ==
    \A i, j \in DOMAIN delivered :
        i < j => delivered[i].tick < delivered[j].tick

\* the step is on_sessions_loaded handling the head of the queue
IsRebuild == queue # <<>> /\ delivered' = Append(delivered, Head(queue))

HasId(list, i) == \E k \in DOMAIN list : list[k].id = i
WithId(list, i) == list[CHOOSE k \in DOMAIN list : list[k].id = i]

\* the snapshot at the head of the queue comes from a later read than
\* every snapshot handled before
InOrder == \A i \in DOMAIN delivered : delivered[i].tick < Head(queue).tick

\* C9: when a rebuild delivers a newer list that still holds the id of the
\* selected session, the selection afterwards is that list's session
\* with this id.
C9_SelectionFollowsRebuild ==
    [][(/\ IsRebuild
        /\ InOrder
        /\ selected_session # <<>>
        /\ HasId(Head(queue).sessions, selected_session[1].id))
       => selected_session' =
            <<WithId(Head(queue).sessions, selected_session[1].id)>>]_vars

\* C10: when a rebuild delivers a list without the id of the selected
\* session, or nothing is selected, the selection afterwards is the first
\* root of the rebuilt forest, or nothing when the forest is empty.
C10_FallbackToFirstRoot ==
    [][(/\ IsRebuild
        /\ \/ selected_session = <<>>
           \/ ~HasId(Head(queue).sessions, selected_session[1].id))
       => selected_session' =
            IF Head(queue).trees.roots = <<>> THEN <<>>
            ELSE <<WithId(Head(queue).sessions, Head(queue).trees.roots[1])>>]_vars

\* ---------------------------------------------------------------------
\* the TTL cache under concurrent callers
\* ---------------------------------------------------------------------

\* C7: no get, set or invalidate issued while another call on the same
\* TTLCache is in progress ends by raising.
C7_NoCallRaises == \A t \in DOMAIN threads : threads[t].pc # "raised"

\* ---------------------------------------------------------------------
\* session status
\* ---------------------------------------------------------------------

\* C14: the result of _get_status_cached(updated_seconds, now) is WORKING
\* when now - updated_seconds < 30 (a negative difference included), ACTIVE
\* when it is in 30..299 and IDLE when it is 300 or more.
C14_StatusByElapsed ==
    st_status # <<>> =>
        /\ (st_now - st_updated < 30 => st_status[1] = WORKING)
        /\ (st_now - st_updated >= 30 /\ st_now - st_updated < 300
               => st_status[1] = ACTIVE)
        /\ (st_now - st_updated >= 300 => st_status[1] = IDLE)

\* the call returned for the boundary value elapsed = 30
C14_Witness ==
    /\ st_status # <<>>
    /\ st_now - st_updated = 30
    /\ st_status[1] = ACTIVE

\* ---------------------------------------------------------------------
\* the TTL cache used by one caller
\* ---------------------------------------------------------------------

\* the step is a call of op on key k
SeqCall(op, k) ==
    /\ sq_calls' = sq_calls + 1
    /\ sq_last'[1].op = op
    /\ sq_last'[1].key = k

\* C16: get(key) returns the value of the most recent set(key, value) when
\* that set is at most ttl seconds old and no invalidate, clear or eviction
\* removed the key since; otherwise it returns None, and an entry it finds
\* expired is gone from the cache afterwards.
C16_GetReturnsLiveSet ==
    [][\A k \in SeqKeys :
          SeqCall("get", k) =>
             /\ sq_last'[1].ret =
                  IF sq_shadow[k] # <<>> /\ sq_now - sq_shadow[k][1].time <= sq_ttl
                  THEN <<sq_shadow[k][1].value>>
                  ELSE <<>>
             /\ (sq_shadow[k] # <<>> /\ sq_now - sq_shadow[k][1].time > sq_ttl)
                   => ~DictHas(sq_cache', k)]_vars

\* a get answered with a value set exactly ttl seconds earlier, ttl > 0
C16_Witness ==
    /\ sq_last # <<>>
    /\ sq_last[1].op = "get"
    /\ sq_last[1].ret # <<>>
    /\ sq_ttl > 0
    /\ sq_now - sq_shadow[sq_last[1].key][1].time = sq_ttl

\* C17: a set of a new key into a cache holding max_size entries removes
\* exactly one entry, one whose timestamp no other entry's timestamp is
\* below, keeps every other entry as it was, and then holds the new entry.
C17_EvictsOldest ==
    [][\A k \in SeqKeys :
          (/\ SeqCall("set", k)
           /\ Len(sq_cache) = sq_max_size
           /\ ~DictHas(sq_cache, k))
          => \E e \in DictKeys(sq_cache) :
                /\ \A i \in DOMAIN sq_cache :
                      DictGet(sq_cache, e).timestamp <= sq_cache[i].timestamp
                /\ DictKeys(sq_cache') = (DictKeys(sq_cache) \ {e}) \cup {k}
                /\ Len(sq_cache') = sq_max_size
                /\ \A j \in DictKeys(sq_cache) \ {e} :
                      DictGet(sq_cache', j) = DictGet(sq_cache, j)
                /\ DictGet(sq_cache', k).timestamp = sq_now]_vars

\* a set into a full cache of more than one entry evicted an entry that a
\* get had read after the surviving entry was stored
C17_Witness ==
    /\ sq_last # <<>>
    /\ sq_last[1].op = "set"
    /\ sq_last[1].evicted # <<>>
    /\ sq_last[1].evicted[1].read
    /\ sq_last[1].evicted[1].key # sq_last[1].key
    /\ sq_max_size > 1
    /\ Len(sq_cache) = sq_max_size

\* ---------------------------------------------------------------------
\* usage aggregation
\* ---------------------------------------------------------------------

\* C15: every ModelUsage returned by get_all_model_usage and held by the
\* SessionTokens of get_session_tokens has total_tokens = input_tokens +
\* output_tokens, and the SessionTokens has total_tokens =
\* total_input_tokens + total_output_tokens.
C15_TotalsAddUp ==
    ag_result # <<>> =>
        IF ag_fn = "get_all_model_usage"
        THEN \A k \in DOMAIN ag_result[1] :
                ag_result[1][k].total_tokens =
                    ag_result[1][k].input_tokens + ag_result[1][k].output_tokens
        ELSE /\ ag_result[1].total_tokens =
                  ag_result[1].total_input_tokens + ag_result[1].total_output_tokens
             /\ \A k \in DOMAIN ag_result[1].models :
                   ag_result[1].models[k].total_tokens =
                       ag_result[1].models[k].input_tokens
                     + ag_result[1].models[k].output_tokens

\* a rollup over messages of two models, one message without an input
\* count
C15_Witness ==
    /\ ag_fn = "get_all_model_usage"
    /\ ag_result # <<>>
    /\ Len(ag_result[1]) = 2
    /\ ag_result[1][1].total_tokens = 7
    /\ ag_result[1][2].total_tokens = 4

\* the rate-limit errors of a model in the table, newest first
RateLimitErrorsOf(provider, model) ==
    SelectSeq(ag_rows, LAMBDA r : /\ r.error # <<>>
                                  /\ r.providerID = provider /\ r.modelID = model
                                  /\ IsRateLimit(r.error[1]))

\* C20: in the rollup of get_all_model_usage, last_rate_limit of a model is
\* the time of its newest rate-limit error and retry_after_ms is the retry
\* duration of that same error, null when it carries none; both are null
\* when the model has no rate-limit error.
C20_NewestRateLimitOnly ==
    (ag_fn = "get_all_model_usage" /\ ag_result # <<>>) =>
        \A k \in DOMAIN ag_result[1] :
            LET u == ag_result[1][k]
                rl == RateLimitErrorsOf(u.provider, u.model)
            IN IF rl = <<>>
               THEN u.last_rate_limit = <<>> /\ u.retry_after_ms = <<>>
               ELSE /\ u.last_rate_limit = <<rl[1].time_created>>
                    /\ u.retry_after_ms = _extract_retry_after(rl[1].error[1])

\* a model whose newest rate-limit error has no retry information and
\* whose older one has: retry_after_ms is null
C20_Witness ==
    /\ ag_fn = "get_all_model_usage"
    /\ ag_result # <<>>
    /\ \E k \in DOMAIN ag_result[1] :
          LET u == ag_result[1][k]
              rl == RateLimitErrorsOf(u.provider, u.model)
          IN /\ Len(rl) >= 2
             /\ _extract_retry_after(rl[1].error[1]) = <<>>
             /\ _extract_retry_after(rl[2].error[1]) # <<>>
             /\ u.retry_after_ms = <<>>
             /\ u.last_rate_limit = <<rl[1].time_created>>

\* ---------------------------------------------------------------------
\* the query builder
\* ---------------------------------------------------------------------

\* C19: a select or count that fails on an unknown table or column has
\* built no SQL, opened no connection and executed nothing, and its error
\* lists the valid names.
C19_ValidatedBeforeSql ==
    qb_error # <<>> =>
        /\ qb_query = <<>>
        /\ qb_connections = 0
        /\ qb_executed = <<>>
        /\ qb_error[1].valid # <<>>

\* ---------------------------------------------------------------------
\* the refresh controller under failures, and without cache
\* ---------------------------------------------------------------------

\* the hashing of the projection of a list fails
HashFails(list) == \E k \in DOMAIN list : list[k].title = Unserializable

IsRead == Len(tickLog') = Len(tickLog) + 1

\* C12: a get_sessions call whose store query failed (store absent or
\* failing, no cached list) returns the empty list without raising, and
\* the next call, if it finds the store readable, returns the store's
\* sessions.
C12_FailedQueryYieldsEmpty ==
    [][IsRead =>
          LET n == Len(tickLog')
          IN /\ tickLog'[n].failed =>
                   (~tickLog'[n].raised /\ tickLog'[n].list = <<>>)
             /\ (n > 1 /\ tickLog[n - 1].failed /\ store_file = "present")
                   => tickLog'[n].list = SortDesc(store)]_vars

\* C13: after a run of _load_data has raised, the application is still
\* running (and so is its interval timer).
C13_TickFailureContained ==
    (\E n \in DOMAIN tickLog : tickLog[n].raised) => running

\* C18: with ttl = 0 no get_sessions call is answered from the cache:
\* whenever a run reads, the cache lookup it makes finds nothing to return.
C18_NoCacheHit ==
    [][IsRead =>
          TTLGet(session_cache, CacheKey(cwd_filter), now, session_ttl).value = <<>>]_vars

\* C30: after any sequence of set, get, invalidate and clear calls on a
\* TTLCache with max_size >= 1 the cache never holds more than max_size
\* entries.
C30_SizeBounded ==
    /\ Len(sq_cache) <= sq_max_size
    /\ Cardinality(DictKeys(sq_cache)) = Len(sq_cache)

\* the last of MaxSeqCalls calls is a set that found the cache full, evicted
\* an entry no get had read and left the cache holding max_size entries
C30_Witness ==
    /\ sq_max_size >= 1
    /\ sq_last # <<>>
    /\ sq_last[1].op = "set"
    /\ sq_last[1].evicted # <<>>
    /\ ~sq_last[1].evicted[1].read
    /\ Len(sq_cache) = sq_max_size
    /\ sq_calls = MaxSeqCalls

\* C21: a message row whose payload is unparseable or lacks expected
\* fields (provider, model, tokens, error data absent or null) never makes
\* get_all_model_usage or get_session_tokens raise: the call returns its
\* rollup over the remaining rows.
C21_DefectiveRowSkipped == ag_pc # "raised"

\* ---------------------------------------------------------------------
\* the renderer
\* ---------------------------------------------------------------------

\* the nodes below x that a reader of the tree sees: the children of x when
\* x is expanded, and what is seen below them
RECURSIVE VisibleBelow(_)
VisibleBelow(x) ==
    IF ~rn_expanded[x] THEN {}
    ELSE Range(rn_children[x])
         \cup UNION {VisibleBelow(c) : c \in Range(rn_children[x])}

LineIds == [i \in DOMAIN rn_lines |-> rn_lines[i].id]

\* C25: render_tree_iterative emits the lines in depth-first pre-order: the
\* line of each node is followed by the lines of all its visible
\* descendants, before the line of its next sibling or of the next root.
C25_DepthFirstOrder ==
    rn_pc = "done" =>
        \A i \in DOMAIN rn_lines :
            LET below == VisibleBelow(rn_lines[i].id)
                last == i + Cardinality(below)
            IN /\ last <= Len(rn_lines)
               /\ {LineIds[j] : j \in (i + 1)..last} = below

\* the nodes the renderer is to show: the roots and what is seen below them
VisibleNodes == Range(rn_roots) \cup UNION {VisibleBelow(r) : r \in Range(rn_roots)}

\* C26: for every forest built by build_session_tree the rendering ends
\* with exactly one line per visible node; with every node expanded the
\* number of lines is the number of sessions, and nothing below a collapsed
\* node has a line.
C26_OneLinePerVisibleNode ==
    /\ Len(rn_lines) <= Len(rn_sessions)
    /\ rn_pc = "done" =>
          /\ Range(LineIds) = VisibleNodes
          /\ Cardinality(Range(LineIds)) = Len(rn_lines)
          /\ (\A i \in DOMAIN rn_expanded : rn_expanded[i])
                => Len(rn_lines) = Len(rn_sessions)
          /\ \A i \in DOMAIN rn_lines :
                ~rn_expanded[LineIds[i]] =>
                    \A c \in Range(rn_children[LineIds[i]]) : c \notin Range(LineIds)

\* ---------------------------------------------------------------------
\* the refresh controller: details, manual refresh
\* ---------------------------------------------------------------------

\* C22: when the snapshot of a changed tick is delivered, the stats, skills
\* and todos held for the selected session are those of that session's
\* store rows as of the tick (or as reloaded at the delivery).
C22_DetailsFollowTick ==
    [][(/\ IsRebuild
        /\ selected_session' # <<>>
        /\ HasId(Head(queue).sessions, selected_session'[1].id))
       => LET id == selected_session'[1].id
          IN /\ stats_cache' # <<>>
             /\ stats_cache'[1].id = id
             /\ stats_cache'[1].details \in
                   {WithId(Head(queue).sessions, id).time_updated,
                    SessionDetails(store_file, store, id)}]_vars

\* C29: the snapshot a run started by action_refresh emits carries the
\* store's session list of the time of the refresh (or of the run's later
\* read), not a list the session cache stored before the refresh.
C29_RefreshCarriesStore ==
    [][\A w \in DOMAIN workers :
          (/\ workers[w].pc = "emit"
           /\ workers[w].asked # <<>>
           /\ workers'[w].pc = "done"
           /\ Len(queue') = Len(queue) + 1)
          => workers[w].sessions \in
                {workers[w].asked[1], StoreList(store, cwd_filter, search_query)}]_vars

\* ---- C23
\* the stored hash is that of a list with the same id, title, directory and
\* time_updated, position by position, as list ss
SameProjected(ss, h) ==
    /\ h.ok
    /\ Len(h.digest) = Len(ss)
    /\ \A k \in DOMAIN ss :
          /\ h.digest[k].id = ss[k].id
          /\ h.digest[k].title = ss[k].title
          /\ h.digest[k].directory = ss[k].directory
          /\ h.digest[k].time_updated = ss[k].time_updated

\* C23: a tick whose session list agrees with the last hashed one in id,
\* title, directory and time_updated of every session (whatever its
\* parent_id values) finds the hash unchanged: the run ends there, posts no
\* snapshot, and leaves the stored hash and the current snapshot as they are.
C23_OutsideProjectionSilent ==
    [][\A w \in DOMAIN workers :
          (/\ workers[w].pc = "compare"
           /\ workers'[w].pc # "compare"
           /\ SameProjected(workers[w].sessions, sessions_hash))
          => /\ workers'[w] = DoneWorker
             /\ queue' = queue
             /\ sessions_hash' = sessions_hash
             /\ sessions' = sessions
             /\ session_trees' = session_trees]_vars

\* a tick ended at its comparison although the list it read differs, in a
\* parent_id only, from the list an earlier tick read and hashed
C23_Witness ==
    \E i, j \in DOMAIN tickLog :
        /\ i < j
        /\ tickLog[j].done
        /\ ~tickLog[j].raised
        /\ ~tickLog[j].forced
        /\ tickLog[j].list # tickLog[i].list
        /\ SameProjected(tickLog[j].list, tickLog[j].seen)
        /\ SameProjected(tickLog[i].list, tickLog[j].seen)
        /\ \A e \in Posted : e.tick # j
        /\ Running = {}

\* ---- C27
\* a run of _load_data stands between storing hash h and posting
InFlightWith(h) ==
    \E w \in DOMAIN workers :
        workers[w].pc = "emit" /\ SessionsHashOf(workers[w].sessions) = h

\* C27: the stored change-detection hash advances only together with an
\* emission: once the run that stored it has ended, a snapshot of a list
\* with that hash has been posted (so a failed tick leaves the hash behind
\* and the next tick over the same list still sees a change).
C27_HashAdvancesWithEmission ==
    (sessions_hash.ok /\ ~InFlightWith(sessions_hash))
        => \E e \in Posted : SessionsHashOf(e.sessions) = sessions_hash

\* ---- C24
\* the step ends a run of _load_data: at the comparison, or after posting
RunEnds ==
    \E w \in DOMAIN workers :
        workers[w].pc \in {"compare", "emit"} /\ workers'[w] = DoneWorker

\* C24: after action_refresh, action_toggle_filter or
\* on_search_bar_search_changed has reset the stored hash, the next run of
\* _load_data that ends has posted a snapshot (whatever list it read).
C24_ResetForcesEmission ==
    [][(reload_due /\ RunEnds) => Len(queue') = Len(queue) + 1]_vars

\* ---- C28
\* nothing is in flight, and a tick over the unchanged store under the
\* current filters would find the stored hash unchanged
Settled ==
    /\ running
    /\ mounted
    /\ Running = {}
    /\ queue = <<>>
    /\ sessions_hash.ok
    /\ sessions_hash = SessionsHashOf(StoreList(store, cwd_filter, search_query))

\* C28: with the store unchanged, once the runs in flight have ended and
\* further ticks would be silent, the presentation layer holds the list
\* computed with the current directory filter and search query, also when
\* a run started under the old filter was in flight at the change.
C28_NewFilterShown ==
    Settled => sessions = StoreList(store, cwd_filter, search_query)

====
